---- MODULE Spec2Model ----
(***************************************************************************)
(* Model of the Parametric-Design-Tool core (src/core/app.py and the two   *)
(* mesh builders): geometry providers with their rounded-key caches, the   *)
(* scene-object factory with its node pool, the debounced display manager, *)
(* the object-creation service, the MainApp handlers that drive them, and  *)
(* the index bookkeeping of the vase mesh builder.                         *)
(*                                                                         *)
(* Numbers.  A Python number is a record [isInt, n]: n is the value in     *)
(* units of 1/Scale (four decimal digits), isInt tells an int from a       *)
(* float (round() keeps the type and str() prints 2 and 2.0 differently).  *)
(* Values are non-negative, as every slider range of the program is.       *)
(* Time is in milliseconds; time.time() is the variable now.               *)
(***************************************************************************)
EXTENDS Integers, Sequences, FiniteSets, TLC

Scale == 10 ^ 4

PyIntVal(i) == [isInt |-> TRUE, n |-> i * Scale]
PyFloat(n) == [isInt |-> FALSE, n |-> n]

(* int(x): truncation toward zero; the result is an int. *)
PyInt(v) ==
    IF v.n >= 0 THEN [isInt |-> TRUE, n |-> (v.n \div Scale) * Scale]
    ELSE [isInt |-> TRUE, n |-> 0 - (((0 - v.n) \div Scale) * Scale)]

(* int(x) that rounds to the nearest integer instead of truncating. *)
PyIntNearest(v) == [isInt |-> TRUE, n |-> ((v.n + (Scale \div 2)) \div Scale) * Scale]

(* round(x, nd): an int is returned as it is; a float goes to the closest   *)
(* multiple of 10^-nd, an exact tie to the even multiple.                   *)
PyRound(v, nd) ==
    IF v.isInt THEN v
    ELSE LET unit == 10 ^ (4 - nd)
             q == v.n \div unit
             r == v.n % unit
             up == IF 2 * r > unit THEN 1
                   ELSE IF 2 * r < unit THEN 0
                   ELSE IF q % 2 = 0 THEN 0 ELSE 1
         IN [isInt |-> FALSE, n |-> (q + up) * unit]

(***************************************************************************)
(* Parameter maps.  A Python dict is a sequence of <<name, value>> pairs   *)
(* with distinct names, in insertion order.                                *)
(***************************************************************************)
FieldNames == <<"Segment Count", "Object Width", "Twist Angle",
                "Twist Groove Depth", "Vertical Wave Frequency",
                "Vertical Wave Depth">>

FieldSet == {FieldNames[i] : i \in 1..Len(FieldNames)}

(* The names in the order sorted() gives them (string comparison). *)
SortedNames == <<"Object Width", "Segment Count", "Twist Angle",
                 "Twist Groove Depth", "Vertical Wave Depth",
                 "Vertical Wave Frequency">>

HasKey(params, name) == \E i \in 1..Len(params) : params[i][1] = name

(* params[name], for a name that is present *)
Lookup(params, name) ==
    params[CHOOSE i \in 1..Len(params) : params[i][1] = name][2]

(* A lookup of a missing name raises KeyError. *)
HasAllFields(params) == \A f \in FieldSet : HasKey(params, f)

(* The rounded value _create_cache_key stores for one field. *)
RoundedFieldCoarse(params, f) ==
    IF f = "Segment Count" THEN PyInt(Lookup(params, f))
    ELSE PyRound(Lookup(params, f), 2)

RoundedField(params, f) ==
    IF f = "Segment Count" THEN PyInt(Lookup(params, f))
    ELSE IF f \in {"Object Width", "Twist Angle", "Vertical Wave Frequency"}
         THEN PyRound(Lookup(params, f), 2)
    ELSE PyRound(Lookup(params, f), 3)

(* str(sorted(rounded_params.items())): the pairs in name order.  Two such  *)
(* strings are equal exactly when the sequences of printed pairs are.       *)
(* A KeyError is the key with ok = FALSE.                                    *)
KeyErrorKey == [ok |-> FALSE, items |-> <<>>]

create_cache_key(params) ==
    IF ~HasAllFields(params) THEN KeyErrorKey
    ELSE [ok |-> TRUE,
          items |-> [i \in 1..Len(SortedNames) |->
                       <<SortedNames[i], RoundedField(params, SortedNames[i])>>]]

(***************************************************************************)
(* Inputs of the key specification.                                        *)
(***************************************************************************)
MkParams(seg, w, tw, gd, wf, wd) ==
    << <<"Segment Count", seg>>, <<"Object Width", w>>, <<"Twist Angle", tw>>,
       <<"Twist Groove Depth", gd>>, <<"Vertical Wave Frequency", wf>>,
       <<"Vertical Wave Depth", wd>> >>

ReverseSeq(s) == [i \in 1..Len(s) |-> s[Len(s) + 1 - i]]

(* segment counts 5, 5.0, 5.7, 6.2 *)
KeySegs == {PyIntVal(5), PyFloat(50000), PyFloat(57000), PyFloat(62000)}
(* widths 2.5, 2.504, 2.506, 2.51 *)
KeyWidths == {PyFloat(25000), PyFloat(25040), PyFloat(25060), PyFloat(25100)}
(* groove depths 1.0, 1.0004, 1.004, 1 *)
KeyDepths == {PyFloat(10000), PyFloat(10004), PyFloat(10040), PyIntVal(1)}
(* wave frequencies 3.0 and 0.125 (an exact tie at two decimals) *)
KeyFreqs == {PyFloat(30000), PyFloat(1250)}

KeyInputsOrdered ==
    {MkParams(s, w, PyFloat(200000), g, f, PyFloat(10000)) :
        s \in KeySegs, w \in KeyWidths, g \in KeyDepths, f \in KeyFreqs}

KeyInputs == KeyInputsOrdered \cup {ReverseSeq(p) : p \in KeyInputsOrdered}

(***************************************************************************)
(* Constants of app.py.  The capacities are scaled down: the code's        *)
(* GEOMETRY_CACHE_SIZE is 128, DISPLAY_CACHE_SIZE 64, _pool_size 32 and    *)
(* the sample window 100; the handlers compare against them only with >=,  *)
(* < and >, so the scaled values exercise the same branches.               *)
(***************************************************************************)
PARAMETER_UPDATE_DEBOUNCE == 100
GEOMETRY_CACHE_SIZE == 2
DISPLAY_CACHE_SIZE == 2
PoolSize == 2                                \* ObjectFactory._pool_size
SamplesKept == 2                             \* the creation times kept

T0 == 10 * PARAMETER_UPDATE_DEBOUNCE          \* time.time() at construction: far from 0
TickMs == PARAMETER_UPDATE_DEBOUNCE          \* a step of the clock
(* the time a create_object call takes before it reads the clock again *)
BuildDelays == {0, PARAMETER_UPDATE_DEBOUNCE \div 2}
MaxSteps == 4                                \* events of a run of the app
MaxTicks == 2
MaxCalls == 4
MaxN == 4                                    \* angular steps of a built mesh
MaxH == 2                                    \* height bands of a built mesh

NoneNum == [isInt |-> FALSE, n |-> 0 - 1]    \* Python's None as a number

(***************************************************************************)
(* The mesh builders, as far as the service sees them: the returned tuple. *)
(* The mesh (geom) is a function of the arguments the builder is called    *)
(* with, so it is represented by them.                                     *)
(***************************************************************************)
BuilderArgs(params) ==
    [segment_count |-> PyInt(Lookup(params, "Segment Count")),
     object_width |-> Lookup(params, "Object Width"),
     twist_angle |-> Lookup(params, "Twist Angle"),
     twist_groove_depth |-> Lookup(params, "Twist Groove Depth"),
     vertical_wave_freq |-> Lookup(params, "Vertical Wave Frequency"),
     vertical_wave_depth |-> Lookup(params, "Vertical Wave Depth")]

(* max_x - min_x of the vase's vertices.  Without modulation (both depths  *)
(* 0) the radius is object_width at every vertex, and the vertices at      *)
(* angle 0 and pi give 2 * object_width.  For vaseDefaults() the value is  *)
(* the one the builder computes, 5.4051 to four digits, and for            *)
(* tableDefaults(), 2.7933.                                                *)
VaseDiameter(args) ==
    CASE args.twist_groove_depth.n = 0 /\ args.vertical_wave_depth.n = 0
            -> PyFloat(2 * args.object_width.n)
      [] args = [segment_count |-> PyIntVal(5), object_width |-> PyFloat(25000),
                 twist_angle |-> PyFloat(200000),
                 twist_groove_depth |-> PyFloat(10000),
                 vertical_wave_freq |-> PyFloat(30000),
                 vertical_wave_depth |-> PyFloat(10000)]
            -> PyFloat(54051)
      [] args = [segment_count |-> PyIntVal(9), object_width |-> PyFloat(12000),
                 twist_angle |-> PyFloat(100000),
                 twist_groove_depth |-> PyFloat(10000),
                 vertical_wave_freq |-> PyFloat(40000),
                 vertical_wave_depth |-> PyFloat(10000)]
            -> PyFloat(27933)

(* return ObjectType, geom, height, diameter *)
vaseGeometry(args) ==
    [len |-> 4, type |-> "Vase", geom |-> args, height |-> PyFloat(70000),
     diameter |-> VaseDiameter(args)]

(* return ObjectType, geom *)
tableGeometry(args) ==
    [len |-> 2, type |-> "Table", geom |-> args, height |-> NoneNum,
     diameter |-> NoneNum]

(* rid is the identity of the GeometryResult instance. *)
extract_result(result, object_type, rid) ==
    [rid |-> rid,
     object_type |-> IF result.len >= 2 THEN result.type ELSE object_type,
     geometry |-> result.geom,
     height |-> IF result.len > 2 THEN result.height ELSE PyFloat(20000),
     diameter |-> IF result.len > 3 THEN result.diameter ELSE NoneNum]

NoResult ==
    [rid |-> <<"none", 0>>, object_type |-> "none", geometry |-> "none",
     height |-> NoneNum, diameter |-> NoneNum]

(***************************************************************************)
(* OptimizedVaseGeometryProvider / OptimizedTableGeometryProvider.         *)
(* A provider is [cache, hits, misses, builds, evicted]: cache is the dict *)
(* _geometry_cache in insertion order, each entry a CachedGeometry with    *)
(* its key; builds counts the calls of the mesh builder.                   *)
(***************************************************************************)
Kinds == {"Vace", "Table"}

(* builds counts the calls of the mesh builder and evicted is the set of     *)
(* keys whose entry has at some time been deleted from the cache: neither   *)
(* is an attribute of the provider, both record its history.                *)
NewProvider ==
    [cache |-> <<>>, hits |-> 0, misses |-> 0, builds |-> 0, evicted |-> {}]

CacheKeys(cache) == {cache[i].key : i \in 1..Len(cache)}

CacheIndex(cache, key) == CHOOSE i \in 1..Len(cache) : cache[i].key = key

RemoveAt(s, i) == [j \in 1..(Len(s) - 1) |-> IF j < i THEN s[j] ELSE s[j + 1]]

(* min(cache.keys(), key=timestamp): the first entry, in the dict's order, *)
(* whose timestamp is the smallest.                                        *)
OldestIndexLast(cache) ==
    CHOOSE i \in 1..Len(cache) :
        /\ \A j \in 1..Len(cache) : cache[i].timestamp >= cache[j].timestamp
        /\ \A j \in 1..(i - 1) : cache[j].timestamp < cache[i].timestamp

OldestIndex(cache) ==
    CHOOSE i \in 1..Len(cache) :
        /\ \A j \in 1..Len(cache) : cache[i].timestamp <= cache[j].timestamp
        /\ \A j \in 1..(i - 1) : cache[j].timestamp > cache[i].timestamp

cache_geometry_unbounded(cache, key, geometry_result, t) ==
    Append(cache, [key |-> key, geometry_result |-> geometry_result,
                   timestamp |-> t, access_count |-> 0])

(* _cache_geometry that empties a full cache before it stores *)
cache_geometry_clears_full(cache, key, geometry_result, t) ==
    LET kept == IF Len(cache) >= GEOMETRY_CACHE_SIZE THEN <<>> ELSE cache
    IN Append(kept, [key |-> key, geometry_result |-> geometry_result,
                     timestamp |-> t, access_count |-> 0])

cache_geometry(cache, key, geometry_result, t) ==
    LET kept == IF Len(cache) >= GEOMETRY_CACHE_SIZE
                THEN RemoveAt(cache, OldestIndex(cache))
                ELSE cache
    IN Append(kept, [key |-> key, geometry_result |-> geometry_result,
                     timestamp |-> t, access_count |-> 0])

Build(kind, params, rid) ==
    IF kind = "Vace"
    THEN extract_result(vaseGeometry(BuilderArgs(params)), "Vace", rid)
    ELSE extract_result(tableGeometry(BuilderArgs(params)), "Table", rid)

(* create_geometry without the early return of the hit branch: the lookup  *)
(* is counted as a hit and the mesh is built and stored all the same.      *)
create_geometry_no_return(P, kind, params, t) ==
    LET key == create_cache_key(params)
        geometry_result == Build(kind, params, <<kind, P.builds + 1>>)
        hit == key \in CacheKeys(P.cache)
        rest == IF hit THEN RemoveAt(P.cache, CacheIndex(P.cache, key))
                ELSE P.cache
    IN IF ~key.ok
       THEN [P |-> P, ret |-> NoResult, raised |-> "KeyError"]
       ELSE [P |-> [P EXCEPT !.hits = IF hit THEN @ + 1 ELSE @,
                             !.misses = @ + 1,
                             !.builds = @ + 1,
                             !.cache = cache_geometry(rest, key,
                                                      geometry_result, t)],
             ret |-> geometry_result, raised |-> "none"]

(* create_geometry that counts the miss before it looks the fields up.     *)
create_geometry_late_error(P, kind, params, t) ==
    LET key == create_cache_key(params) IN
    IF ~key.ok
    THEN [P |-> [P EXCEPT !.misses = @ + 1], ret |-> NoResult,
          raised |-> "KeyError"]
    ELSE IF key \in CacheKeys(P.cache)
    THEN LET i == CacheIndex(P.cache, key)
             e == P.cache[i]
         IN [P |-> [P EXCEPT !.hits = @ + 1,
                             !.cache[i].access_count = @ + 1,
                             !.cache[i].timestamp = t],
             ret |-> e.geometry_result, raised |-> "none"]
    ELSE LET geometry_result == Build(kind, params, <<kind, P.builds + 1>>)
         IN [P |-> [P EXCEPT !.misses = @ + 1,
                             !.builds = @ + 1,
                             !.cache = cache_geometry(P.cache, key,
                                                      geometry_result, t)],
             ret |-> geometry_result, raised |-> "none"]

(* create_geometry that answers a hit without counting it. *)
create_geometry_uncounted_hit(P, kind, params, t) ==
    LET key == create_cache_key(params) IN
    IF ~key.ok
    THEN [P |-> P, ret |-> NoResult, raised |-> "KeyError"]
    ELSE IF key \in CacheKeys(P.cache)
    THEN LET i == CacheIndex(P.cache, key)
             e == P.cache[i]
         IN [P |-> [P EXCEPT !.cache[i].access_count = @ + 1,
                             !.cache[i].timestamp = t],
             ret |-> e.geometry_result, raised |-> "none"]
    ELSE LET geometry_result == Build(kind, params, <<kind, P.builds + 1>>)
         IN [P |-> [P EXCEPT !.misses = @ + 1,
                             !.builds = @ + 1,
                             !.cache = cache_geometry(P.cache, key,
                                                      geometry_result, t)],
             ret |-> geometry_result, raised |-> "none"]

(* create_geometry that re-stamps every entry on a hit. *)
create_geometry_restamps_all(P, kind, params, t) ==
    LET key == create_cache_key(params) IN
    IF ~key.ok
    THEN [P |-> P, ret |-> NoResult, raised |-> "KeyError"]
    ELSE IF key \in CacheKeys(P.cache)
    THEN LET i == CacheIndex(P.cache, key)
             e == P.cache[i]
         IN [P |-> [P EXCEPT
                      !.hits = @ + 1,
                      !.cache = [j \in 1..Len(P.cache) |->
                                    IF j = i
                                    THEN [P.cache[j] EXCEPT
                                            !.access_count = @ + 1,
                                            !.timestamp = t]
                                    ELSE [P.cache[j] EXCEPT !.timestamp = t]]],
             ret |-> e.geometry_result, raised |-> "none"]
    ELSE LET geometry_result == Build(kind, params, <<kind, P.builds + 1>>)
         IN [P |-> [P EXCEPT !.misses = @ + 1,
                             !.builds = @ + 1,
                             !.cache = cache_geometry(P.cache, key,
                                                      geometry_result, t)],
             ret |-> geometry_result, raised |-> "none"]

(* create_geometry(params) at time t.  The outcome is the provider after   *)
(* the call, the returned GeometryResult and the exception raised.         *)
create_geometry(P, kind, params, t) ==
    LET key == create_cache_key(params) IN
    IF ~key.ok
    THEN [P |-> P, ret |-> NoResult, raised |-> "KeyError"]
    ELSE IF key \in CacheKeys(P.cache)
    THEN LET i == CacheIndex(P.cache, key)
             e == P.cache[i]
         IN [P |-> [P EXCEPT !.hits = @ + 1,
                             !.cache[i].access_count = @ + 1,
                             !.cache[i].timestamp = t],
             ret |-> e.geometry_result, raised |-> "none"]
    ELSE LET geometry_result == Build(kind, params, <<kind, P.builds + 1>>)
             Stored(cache) ==
                [P EXCEPT !.misses = @ + 1,
                          !.builds = @ + 1,
                          !.cache = cache,
                          !.evicted = @ \cup (CacheKeys(P.cache)
                                                \ CacheKeys(cache))]
         IN [P |-> Stored(cache_geometry(P.cache, key, geometry_result, t)),
             ret |-> geometry_result, raised |-> "none"]

(* get_cache_stats of a provider; the hit rate is kept as the fraction     *)
(* hits / lookups, and is the integer 0 when there was no lookup           *)
get_cache_stats(P) ==
    [cache_hits |-> P.hits,
     cache_misses |-> P.misses,
     cache_size |-> Len(P.cache),
     hit_rate |-> IF P.hits + P.misses > 0
                  THEN [hits |-> P.hits, lookups |-> P.hits + P.misses]
                  ELSE 0]

(***************************************************************************)
(* ObjectFactory.  nodes are the GeomNodes ever allocated (a node is its   *)
(* index), each with the Geoms it holds, as the rids of their results;     *)
(* paths are the NodePaths ever returned by render.attachNewNode (a path   *)
(* is its index), attached until removeNode(); pool is _node_pool.         *)
(* A position is its x coordinate, in units of 1: y and z are always 0.    *)
(***************************************************************************)
NewFactory == [pool |-> <<>>, nodes |-> <<>>, paths |-> <<>>]

(* create_scene_object that never takes a node from the pool *)
create_scene_object_never_reuses(F, request, geometry_result) ==
    LET nodes == Append(F.nodes, [geoms |-> <<geometry_result.rid>>])
        paths == Append(F.paths, [node |-> Len(nodes), x |-> request.x,
                                  scale |-> request.scale, attached |-> TRUE])
    IN [F |-> [pool |-> F.pool, nodes |-> nodes, paths |-> paths],
        ret |-> Len(paths)]

(* create_scene_object without removeAllGeoms: a reused node keeps the     *)
(* mesh it held.                                                           *)
create_scene_object_keeps_geoms(F, request, geometry_result) ==
    LET reuse == Len(F.pool) > 0
        node == IF reuse THEN F.pool[Len(F.pool)] ELSE Len(F.nodes) + 1
        pool == IF reuse THEN SubSeq(F.pool, 1, Len(F.pool) - 1) ELSE F.pool
        nodes == IF reuse
                 THEN [F.nodes EXCEPT
                        ![node].geoms = Append(@, geometry_result.rid)]
                 ELSE Append(F.nodes, [geoms |-> <<geometry_result.rid>>])
        paths == Append(F.paths, [node |-> node, x |-> request.x,
                                  scale |-> request.scale, attached |-> TRUE])
    IN [F |-> [pool |-> pool, nodes |-> nodes, paths |-> paths],
        ret |-> Len(paths)]

create_scene_object(F, request, geometry_result) ==
    LET reuse == Len(F.pool) > 0
        node == IF reuse THEN F.pool[Len(F.pool)] ELSE Len(F.nodes) + 1
        pool == IF reuse THEN SubSeq(F.pool, 1, Len(F.pool) - 1) ELSE F.pool
        nodes == IF reuse
                 THEN [F.nodes EXCEPT ![node].geoms = <<geometry_result.rid>>]
                 ELSE Append(F.nodes, [geoms |-> <<geometry_result.rid>>])
        paths == Append(F.paths, [node |-> node, x |-> request.x,
                                  scale |-> request.scale, attached |-> TRUE])
    IN [F |-> [pool |-> pool, nodes |-> nodes, paths |-> paths],
        ret |-> Len(paths)]

(* recycle_node without the test of the pool's size *)
recycle_node_unbounded(F, node) == [F EXCEPT !.pool = Append(@, node)]

recycle_node(F, node) ==
    IF Len(F.pool) < PoolSize THEN [F EXCEPT !.pool = Append(@, node)] ELSE F

(* NodePath.removeNode() *)
removeNode(F, path) == [F EXCEPT !.paths[path].attached = FALSE]

(***************************************************************************)
(* OptimizedMainObjectDisplayManager.  readout is what UIMetrics shows,    *)
(* camera the last framing the camera was given; display_cache is the dict *)
(* in insertion order.  The measured bounds of a node are a function of    *)
(* the mesh it holds and are represented by that mesh.                     *)
(***************************************************************************)
NoArgs ==
    [segment_count |-> NoneNum, object_width |-> NoneNum,
     twist_angle |-> NoneNum, twist_groove_depth |-> NoneNum,
     vertical_wave_freq |-> NoneNum, vertical_wave_depth |-> NoneNum]

NoMetrics ==
    [type |-> "none", diameter |-> NoneNum, height |-> NoneNum,
     bounds |-> NoArgs]

NewDisplay(camera_controller) ==
    [last_update_time |-> 0, pending_updates |-> 0, display_cache |-> <<>>,
     camera_controller |-> camera_controller,
     readout |-> NoMetrics,
     camera |-> [view |-> "default", height |-> NoneNum, diameter |-> NoneNum]]

create_display_cache_key(geometry_result) ==
    <<geometry_result.object_type, geometry_result.height,
      geometry_result.diameter>>

calculate_display_data(D, geometry_result) ==
    [ui_metrics |->
        IF geometry_result.diameter # NoneNum
        THEN [type |-> "diameter_height",
              diameter |-> geometry_result.diameter,
              height |-> geometry_result.height, bounds |-> NoArgs]
        ELSE [type |-> "bounds", diameter |-> NoneNum, height |-> NoneNum,
              bounds |-> geometry_result.geometry],
     camera_distance |->
        IF D.camera_controller THEN geometry_result.height ELSE NoneNum,
     timestamp |-> 0]

DisplayKeys(cache) == {cache[i].key : i \in 1..Len(cache)}

DisplayIndex(cache, key) == CHOOSE i \in 1..Len(cache) : cache[i].key = key

OldestDisplayIndex(cache) ==
    CHOOSE i \in 1..Len(cache) :
        /\ \A j \in 1..Len(cache) :
             cache[i].data.timestamp <= cache[j].data.timestamp
        /\ \A j \in 1..(i - 1) :
             cache[j].data.timestamp > cache[i].data.timestamp

(* _cache_display_data that makes room by deleting the newest entry *)
cache_display_data_evicts_newest(cache, key, data, t) ==
    LET kept == IF Len(cache) >= DISPLAY_CACHE_SIZE
                THEN RemoveAt(cache, Len(cache))
                ELSE cache
    IN Append(kept, [key |-> key, data |-> [data EXCEPT !.timestamp = t]])

cache_display_data(cache, key, data, t) ==
    LET kept == IF Len(cache) >= DISPLAY_CACHE_SIZE
                THEN RemoveAt(cache, OldestDisplayIndex(cache))
                ELSE cache
    IN Append(kept, [key |-> key, data |-> [data EXCEPT !.timestamp = t]])

(* A number is true when it is neither None nor 0. *)
Truthy(v) == v # NoneNum /\ v.n # 0

apply_display_data(D, display_data) ==
    LET m == display_data.ui_metrics
        shown == IF m.type # "none" THEN m ELSE D.readout
        framed ==
            IF D.camera_controller /\ Truthy(display_data.camera_distance)
            THEN [view |-> "optimal",
                  height |-> display_data.camera_distance,
                  diameter |-> IF m.type # "none" /\ Truthy(m.diameter)
                               THEN m.diameter ELSE NoneNum]
            ELSE D.camera
    IN [D EXCEPT !.readout = shown, !.camera = framed]

(* update_display whose debounce test is missing *)
update_display_always(D, geometry_result, t) ==
    LET cache_key == create_display_cache_key(geometry_result)
        D1 == [D EXCEPT !.pending_updates = 0]
        D2 == IF cache_key \in DisplayKeys(D1.display_cache)
              THEN apply_display_data(D1,
                     D1.display_cache[DisplayIndex(D1.display_cache, cache_key)].data)
              ELSE LET display_data == calculate_display_data(D1, geometry_result)
                   IN apply_display_data(
                        [D1 EXCEPT !.display_cache =
                            cache_display_data(@, cache_key, display_data, t)],
                        [display_data EXCEPT !.timestamp = t])
    IN [D2 EXCEPT !.last_update_time = t]

(* update_display that leaves the pending counter alone when it applies *)
update_display_keeps_pending(D, geometry_result, t) ==
    IF t - D.last_update_time < PARAMETER_UPDATE_DEBOUNCE
    THEN [D EXCEPT !.pending_updates = @ + 1]
    ELSE
    LET cache_key == create_display_cache_key(geometry_result)
        D2 == IF cache_key \in DisplayKeys(D.display_cache)
              THEN apply_display_data(D,
                     D.display_cache[DisplayIndex(D.display_cache, cache_key)].data)
              ELSE LET display_data == calculate_display_data(D, geometry_result)
                   IN apply_display_data(
                        [D EXCEPT !.display_cache =
                            cache_display_data(@, cache_key, display_data, t)],
                        [display_data EXCEPT !.timestamp = t])
    IN [D2 EXCEPT !.last_update_time = t]

(* update_display(object_np, geometry_result) with time.time() = t *)
update_display(D, geometry_result, t) ==
    IF t - D.last_update_time < PARAMETER_UPDATE_DEBOUNCE
    THEN [D EXCEPT !.pending_updates = @ + 1]
    ELSE
    LET cache_key == create_display_cache_key(geometry_result)
        D1 == [D EXCEPT !.pending_updates = 0]
        D2 == IF cache_key \in DisplayKeys(D1.display_cache)
              THEN apply_display_data(D1,
                     D1.display_cache[DisplayIndex(D1.display_cache, cache_key)].data)
              ELSE LET display_data == calculate_display_data(D1, geometry_result)
                   IN apply_display_data(
                        [D1 EXCEPT !.display_cache =
                            cache_display_data(@, cache_key, display_data, t)],
                        [display_data EXCEPT !.timestamp = t])
    IN [D2 EXCEPT !.last_update_time = t]

(***************************************************************************)
(* OptimizedObjectCreationService.  The service and what it owns is the    *)
(* record [providers, factory, display, perf]; upd and ocall record the    *)
(* last update_display and the last create_object call, each with the      *)
(* state it found and the state it left.                                   *)
(***************************************************************************)
NewPerf == [creation_times |-> <<>>, total_creations |-> 0]

ServiceOf(W) ==
    [providers |-> W.providers, factory |-> W.factory,
     display |-> W.display, perf |-> W.perf]

NoUpd ==
    [n |-> 0, t |-> 0, result |-> NoResult,
     before |-> NewDisplay(FALSE), after |-> NewDisplay(FALSE)]

NewService(camera_controller) ==
    [providers |-> [k \in Kinds |-> NewProvider], factory |-> NewFactory,
     display |-> NewDisplay(camera_controller), perf |-> NewPerf]

NoOCall ==
    [n |-> 0, object_type |-> "none", params |-> <<>>, x |-> 0,
     raised |-> "none", ret |-> 0,
     before |-> NewService(FALSE), after |-> NewService(FALSE)]

Request(params, object_type, x, scale) ==
    [params |-> params, object_type |-> object_type, x |-> x, scale |-> scale]

RecordSampleKeepsOldest(perf, creation_time) ==
    LET times == Append(perf.creation_times, creation_time)
    IN [creation_times |-> IF Len(times) > SamplesKept
                           THEN SubSeq(times, 1, SamplesKept) ELSE times,
        total_creations |-> perf.total_creations + 1]

RecordSample(perf, creation_time) ==
    LET times == Append(perf.creation_times, creation_time)
    IN [creation_times |-> IF Len(times) > SamplesKept
                           THEN SubSeq(times, 2, Len(times)) ELSE times,
        total_creations |-> perf.total_creations + 1]

RECURSIVE SumOf(_)
SumOf(times) == IF times = <<>> THEN 0 ELSE times[1] + SumOf(Tail(times))

MinOf(times) == CHOOSE m \in {times[i] : i \in 1..Len(times)} :
                    \A i \in 1..Len(times) : m <= times[i]

MaxOf(times) == CHOOSE m \in {times[i] : i \in 1..Len(times)} :
                    \A i \in 1..Len(times) : m >= times[i]

(* get_performance_stats: {} without samples; times are whole ms, the      *)
(* average is kept as the fraction sum / count                             *)
get_performance_stats(P) ==
    IF P.creation_times = <<>> THEN [empty |-> TRUE]
    ELSE [empty |-> FALSE,
          total_creations |-> P.total_creations,
          avg_creation_time |-> [sum |-> SumOf(P.creation_times),
                                 count |-> Len(P.creation_times)],
          min_creation_time |-> MinOf(P.creation_times),
          max_creation_time |-> MaxOf(P.creation_times),
          recent_creations |-> Len(P.creation_times)]

Failed(W, request, exception) ==
    [W EXCEPT !.ocall = [n |-> W.ocall.n + 1,
                         object_type |-> request.object_type,
                         params |-> request.params, x |-> request.x,
                         raised |-> exception, ret |-> 0,
                         before |-> ServiceOf(W), after |-> ServiceOf(W)]]

(* create_object once the provider is resolved.  The call started at time  *)
(* t; the clock reads t + d when the geometry is stamped, when             *)
(* update_display runs and when the call ends.  The steps of the body are  *)
(* local operators, each taking what the steps before it produced: g from  *)
(* create_geometry, so from create_scene_object, D from update_display.    *)
create_object_resolved(W, request, t, d) ==
    LET kind == request.object_type
        primary == request.x = 0
        Returned(W1, ret) ==
            [W1 EXCEPT !.ocall = [n |-> W.ocall.n + 1,
                                  object_type |-> request.object_type,
                                  params |-> request.params, x |-> request.x,
                                  raised |-> "none", ret |-> ret,
                                  before |-> ServiceOf(W),
                                  after |-> ServiceOf(W1)]]
        Tracked(g, so, D) ==
            Returned([W EXCEPT !.providers[kind] = g.P,
                               !.factory = so.F,
                               !.display = D,
                               !.perf = RecordSample(@, d),
                               !.upd = IF primary
                                       THEN [n |-> @.n + 1, t |-> t + d,
                                             result |-> g.ret,
                                             before |-> W.display, after |-> D]
                                       ELSE @],
                     so.ret)
        Shown(g, so) ==
            Tracked(g, so, IF primary
                           THEN update_display(W.display, g.ret, t + d)
                           ELSE W.display)
        Built(g) ==
            IF g.raised # "none"
            THEN Failed(W, request, g.raised)
            ELSE Shown(g, create_scene_object(W.factory, request, g.ret))
    IN Built(create_geometry(W.providers[kind], kind, request.params, t + d))

(* create_object that counts the creation before it resolves the provider *)
create_object_counts_first(W, request, t, d) ==
    IF request.object_type \notin Kinds
    THEN LET W1 == [W EXCEPT !.perf.total_creations = @ + 1]
         IN [W1 EXCEPT !.ocall = [n |-> W.ocall.n + 1,
                         object_type |-> request.object_type,
                         params |-> request.params, x |-> request.x,
                         raised |-> "ValueError", ret |-> 0,
                         before |-> ServiceOf(W), after |-> ServiceOf(W1)]]
    ELSE create_object_resolved(W, request, t, d)

(* create_object(request) *)
create_object(W, request, t, d) ==
    IF request.object_type \notin Kinds
    THEN Failed(W, request, "ValueError")
    ELSE create_object_resolved(W, request, t, d)

(***************************************************************************)
(* MainApp.  The handlers take the application state A and the service W   *)
(* and give both back, with the exception that left the handler, if any.   *)
(***************************************************************************)
vaseDefaults ==
    MkParams(PyIntVal(5), PyFloat(25000), PyFloat(200000), PyFloat(10000),
             PyFloat(30000), PyFloat(10000))

tableDefaults ==
    MkParams(PyIntVal(9), PyFloat(12000), PyFloat(100000), PyFloat(10000),
             PyFloat(40000), PyFloat(10000))

(* vaseSliderConfig(), tableSliderConfig(): (name, (low, high), value) as  *)
(* <<name, low, high, value>>, the numbers in units of 1/Scale             *)
vaseSliderConfig ==
    << <<"Segment Count", 2 * Scale, 9 * Scale, 5 * Scale>>,
       <<"Object Width", 2 * Scale, 3 * Scale, 25000>>,
       <<"Twist Angle", 0, 45 * Scale, 20 * Scale>>,
       <<"Twist Groove Depth", 0, 5 * Scale, 1 * Scale>>,
       <<"Vertical Wave Frequency", 0, 20 * Scale, 3 * Scale>>,
       <<"Vertical Wave Depth", 0, 5 * Scale, 1 * Scale>> >>

tableSliderConfig ==
    << <<"Segment Count", 2 * Scale, 9 * Scale, 5 * Scale>>,
       <<"Object Width", 5000, 2 * Scale, 1 * Scale>>,
       <<"Twist Angle", 0, 45 * Scale, 20 * Scale>>,
       <<"Twist Groove Depth", 0, 5 * Scale, 1 * Scale>>,
       <<"Vertical Wave Frequency", 0, 20 * Scale, 3 * Scale>>,
       <<"Vertical Wave Depth", 0, 5 * Scale, 1 * Scale>> >>

get_supported_parameters_of_vase(kind) == vaseDefaults

(* get_supported_parameters of the provider of a kind *)
get_supported_parameters(kind) ==
    IF kind = "Vace" THEN vaseDefaults ELSE tableDefaults

(* dict.update: a present name keeps its place, a new one goes last *)
RECURSIVE DictUpdate(_, _)
DictUpdate(dict, other) ==
    IF other = <<>> THEN dict
    ELSE LET name == other[1][1]
             one == IF HasKey(dict, name)
                    THEN [i \in 1..Len(dict) |->
                            IF dict[i][1] = name THEN other[1] ELSE dict[i]]
                    ELSE Append(dict, other[1])
         IN DictUpdate(one, Tail(other))

(* original_camera_pos / original_camera_hpr before they are stored *)
NoCamera == [view |-> "none", height |-> NoneNum, diameter |-> NoneNum]

NewApp ==
    [current_object_type |-> "Vace", current_params |-> vaseDefaults,
     pending_parameter_updates |-> <<>>, last_parameter_update_time |-> 0,
     favorites_list |-> <<>>, current_favorite_index |-> 0,
     favorite_objects |-> <<>>, cylinder_np |-> 0,
     original_camera |-> NoCamera]

Outcome(A, W, raised) == [A |-> A, W |-> W, raised |-> raised]

(* build_object that pools the node of the old object and leaves the old   *)
(* NodePath under render.                                                  *)
build_object_keeps_old(A, W, t, d) ==
    IF A.cylinder_np # 0 /\ ~W.factory.paths[A.cylinder_np].attached
    THEN Outcome(A, W, "AssertionError")
    ELSE
    LET F == IF A.cylinder_np # 0
             THEN recycle_node(W.factory, W.factory.paths[A.cylinder_np].node)
             ELSE W.factory
        Created(W1) ==
            IF W1.ocall.raised # "none"
            THEN Outcome(A, W1, W1.ocall.raised)
            ELSE Outcome([A EXCEPT !.cylinder_np = W1.ocall.ret], W1, "none")
    IN Created(create_object([W EXCEPT !.factory = F],
                             Request(A.current_params, A.current_object_type,
                                     0, 1),
                             t, d))

(* cylinder_np = 0: the attribute does not exist yet.  node() of a removed  *)
(* NodePath fails.                                                          *)
build_object(A, W, t, d) ==
    IF A.cylinder_np # 0 /\ ~W.factory.paths[A.cylinder_np].attached
    THEN Outcome(A, W, "AssertionError")
    ELSE
    LET F == IF A.cylinder_np # 0
             THEN removeNode(
                    recycle_node(W.factory, W.factory.paths[A.cylinder_np].node),
                    A.cylinder_np)
             ELSE W.factory
        Created(W1) ==
            IF W1.ocall.raised # "none"
            THEN Outcome(A, W1, W1.ocall.raised)
            ELSE Outcome([A EXCEPT !.cylinder_np = W1.ocall.ret], W1, "none")
    IN Created(create_object([W EXCEPT !.factory = F],
                             Request(A.current_params, A.current_object_type,
                                     0, 1),
                             t, d))

(* _on_parameters_change that leaves the applied values in the pending set *)
on_parameters_change_keeps_pending(A, W, params, t, d) ==
    LET pending == DictUpdate(A.pending_parameter_updates, params) IN
    IF t - A.last_parameter_update_time < PARAMETER_UPDATE_DEBOUNCE
    THEN Outcome([A EXCEPT !.pending_parameter_updates = pending], W, "none")
    ELSE build_object(
            [A EXCEPT !.current_params = DictUpdate(@, pending),
                      !.pending_parameter_updates = pending,
                      !.last_parameter_update_time = t],
            W, t, d)

(* _on_parameters_change without the debounce test *)
on_parameters_change_undebounced(A, W, params, t, d) ==
    build_object(
        [A EXCEPT !.current_params =
                        DictUpdate(@, DictUpdate(A.pending_parameter_updates,
                                                 params)),
                  !.pending_parameter_updates = <<>>,
                  !.last_parameter_update_time = t],
        W, t, d)

on_parameters_change(A, W, params, t, d) ==
    LET pending == DictUpdate(A.pending_parameter_updates, params) IN
    IF t - A.last_parameter_update_time < PARAMETER_UPDATE_DEBOUNCE
    THEN Outcome([A EXCEPT !.pending_parameter_updates = pending], W, "none")
    ELSE build_object(
            [A EXCEPT !.current_params = DictUpdate(@, pending),
                      !.pending_parameter_updates = <<>>,
                      !.last_parameter_update_time = t],
            W, t, d)

on_object_change(A, W, selected_object_type, t, d) ==
    LET A1 == [A EXCEPT !.current_object_type = selected_object_type] IN
    IF selected_object_type \notin Kinds
    THEN Outcome(A1, W, "none")
    ELSE build_object(
            [A1 EXCEPT !.current_params =
                DictUpdate(@, get_supported_parameters(selected_object_type))],
            W, t, d)

(* _rebuild_with_params(params, object_type); object_type "" is None *)
rebuild_with_params(A, W, params, object_type, t, d) ==
    build_object(
        [A EXCEPT !.current_object_type =
                        IF object_type # "" THEN object_type ELSE @,
                  !.current_params = DictUpdate(@, params)],
        W, t, d)

RECURSIVE RemoveAll(_, _)
RemoveAll(F, objects) ==
    IF objects = <<>> THEN F
    ELSE RemoveAll(removeNode(F, objects[1]), Tail(objects))

clear_favorite_objects_from_scene(A, W) ==
    Outcome([A EXCEPT !.favorite_objects = <<>>],
            [W EXCEPT !.factory = RemoveAll(@, A.favorite_objects)], "none")

(* x of the i-th (from 0) of total favorites: start_x + i * spacing, with   *)
(* spacing 4.0 and start_x = -(total - 1) * spacing / 2                     *)
GridX(total, i) == 4 * i - 2 * (total - 1)

(* the loop of _display_favorites_grid from index i (from 0) on *)
RECURSIVE display_favorites_grid(_, _, _, _)
display_favorites_grid(A, W, i, t) ==
    IF i >= Len(A.favorites_list) THEN Outcome(A, W, "none")
    ELSE LET favorite == A.favorites_list[i + 1]
             Created(W1) ==
                IF W1.ocall.raised # "none"
                THEN Outcome(A, W1, W1.ocall.raised)
                ELSE display_favorites_grid(
                        [A EXCEPT !.favorite_objects = Append(@, W1.ocall.ret)],
                        W1, i + 1, t)
         IN Created(create_object(W,
                      Request(favorite.parameters, favorite.object_type,
                              GridX(Len(A.favorites_list), i), 1),
                      t, 0))

DefaultView == [view |-> "default", height |-> NoneNum, diameter |-> NoneNum]

display_all_favorites(A, W, favorites_list, t) ==
    LET Focused(g) ==
            IF g.raised # "none" THEN g
            ELSE Outcome([g.A EXCEPT !.original_camera =
                                IF @ = NoCamera THEN g.W.display.camera ELSE @],
                         [g.W EXCEPT !.display.camera = DefaultView],
                         "none")
        Cleared(c) ==
            IF favorites_list = <<>> THEN c
            ELSE Focused(display_favorites_grid(
                            [c.A EXCEPT !.favorites_list = favorites_list,
                                        !.current_favorite_index = 0],
                            c.W, 0, t))
    IN Cleared(clear_favorite_objects_from_scene(A, W))

(* _clear_favorite_objects: the scene is cleared and the camera put back   *)
(* where it was before the first favorites display, if there was one.      *)
clear_favorite_objects(A, W) ==
    LET Restored(c) ==
            Outcome(c.A,
                    [c.W EXCEPT !.display.camera =
                        IF A.original_camera # NoCamera
                        THEN A.original_camera ELSE @],
                    "none")
    IN Restored(clear_favorite_objects_from_scene(A, W))

(* MainApp.__init__ at time t: the services with no camera controller yet, *)
(* the first build_object, the initial camera view, then the camera        *)
(* controller handed to the display manager.                               *)
Started(t) ==
    LET W0 == NewService(FALSE) @@ [upd |-> NoUpd, ocall |-> NoOCall]
        Shown(b) ==
            Outcome(b.A,
                    [b.W EXCEPT !.display.camera =
                                    [view |-> "initial", height |-> NoneNum,
                                     diameter |-> NoneNum],
                                !.display.camera_controller = TRUE],
                    "none")
    IN Shown(build_object(NewApp, W0, t, 0))

(***************************************************************************)
(* Inputs of the provider specification (both modulation depths 0).        *)
(***************************************************************************)
Plain(seg, w) ==
    MkParams(seg, w, PyFloat(200000), PyFloat(0), PyFloat(30000), PyFloat(0))

ParamsA == Plain(PyFloat(50000), PyFloat(25000))      \* 5.0, 2.5
ParamsA2 == Plain(PyFloat(57000), PyFloat(25040))     \* 5.7, 2.504: A's key
ParamsB == Plain(PyFloat(50000), PyFloat(26000))      \* 5.0, 2.6
ParamsC == Plain(PyFloat(67000), PyFloat(25000))      \* 6.7, 2.5
ParamsD == Plain(PyFloat(50000), PyFloat(27000))      \* 5.0, 2.7
(* a map without "Twist Angle", and one without "Vertical Wave Depth" *)
ParamsNoTwist == << ParamsA[1], ParamsA[2], ParamsA[4], ParamsA[5], ParamsA[6] >>
ParamsNoWaveDepth == SubSeq(ParamsB, 1, 5)

ProviderInputs(kind) ==
    IF kind = "Vace"
    THEN {ParamsA, ParamsA2, ParamsB, ParamsC, ParamsD, ParamsNoTwist}
    ELSE {ParamsA, ParamsB, ParamsNoWaveDepth}

(***************************************************************************)
(* Inputs of the application specification.                                *)
(***************************************************************************)
SliderInputs == {ParamsA, ParamsB}

Favorite(object_type, parameters) ==
    [object_type |-> object_type, parameters |-> parameters]

FavoriteLists ==
    { <<>>,
      <<Favorite("Vace", ParamsA)>>,
      <<Favorite("Vace", ParamsA), Favorite("Table", ParamsB)>>,
      <<Favorite("Chair", ParamsA), Favorite("Vace", ParamsA)>>,
      <<Favorite("Table", ParamsB), Favorite("Vace", <<>>)>> }

VARIABLES
    kp1, kp2,       \* two parameter maps
    kk1, kk2,       \* their cache keys, NoKey before they are computed
    kpc,            \* "idle" | "start" | "done"
    now,            \* time.time(), in ms
    ticks,          \* number of clock steps taken
    providers,      \* geometry_providers: kind -> provider
    call,           \* the last call: what was asked and what came back
    calls,          \* number of calls made
    segments,       \* vaseGeometry: angular steps (40 in the code)
    height_segments,\* vaseGeometry: height bands (40 in the code)
    mpc,            \* vaseGeometry: the loop being executed
    mi, mh,         \* vaseGeometry: loop counters i and h
    vertices,       \* vaseGeometry: the rows written to vdata, as positions
    indices,        \* vaseGeometry: the triangles, as index triples
    rings,          \* vaseGeometry: the index lists of the rings
    margs,          \* the arguments the mesh builder was called with
    bbox,           \* vaseGeometry: min_x, max_x, min_y, max_y, min_z, max_z
    mret,           \* the tuple the mesh builder returned
    factory,        \* ObjectFactory: pool, nodes, NodePaths
    display,        \* OptimizedMainObjectDisplayManager
    perf,           \* the service's _creation_times and _total_creations
    upd,            \* the last update_display call
    ocall,          \* the last create_object call
    app,            \* MainApp's own attributes
    event,          \* the last handler run and the exception that left it
    steps           \* number of steps taken

keyVars == <<kp1, kp2, kk1, kk2, kpc>>
clockVars == <<now, ticks>>
providerVars == <<providers, call, calls>>

meshVars ==
    <<segments, height_segments, mpc, mi, mh, vertices, indices, rings,
      margs, bbox, mret>>

appVars == <<factory, display, perf, upd, ocall, app, event, steps>>

vars == <<keyVars, clockVars, providerVars, meshVars, appVars>>

NoKey == [ok |-> FALSE, items |-> <<>>]

NoCall ==
    [op |-> "none", kind |-> "none", params |-> <<>>, key |-> NoKey,
     ret |-> NoResult, raised |-> "none"]

KeyIdle ==
    /\ kp1 = <<>>
    /\ kp2 = <<>>
    /\ kk1 = NoKey
    /\ kk2 = NoKey
    /\ kpc = "idle"

NoRings ==
    [top_outer |-> <<>>, top_inner |-> <<>>, bottom_outer |-> <<>>,
     bottom_inner |-> <<>>, outer_upper |-> <<>>, outer_lower |-> <<>>,
     inner_upper |-> <<>>, inner_lower |-> <<>>]

(* float('inf') and float('-inf') *)
Inf == 10 ^ 9

NoBox ==
    [min_x |-> Inf, max_x |-> 0 - Inf, min_y |-> Inf, max_y |-> 0 - Inf,
     min_z |-> Inf, max_z |-> 0 - Inf]

NoReturn ==
    [len |-> 0, type |-> "none", geom |-> NoArgs, height |-> NoneNum,
     diameter |-> NoneNum]

MeshIdle ==
    /\ margs = NoArgs
    /\ bbox = NoBox
    /\ mret = NoReturn
    /\ segments = 0
    /\ height_segments = 0
    /\ mpc = "idle"
    /\ mi = 0
    /\ mh = 0
    /\ vertices = <<>>
    /\ indices = <<>>
    /\ rings = NoRings

NoEvent == [name |-> "none", raised |-> "none"]

(* The providers alone: no service, no application. *)
ProvidersConstructed ==
    /\ now = T0
    /\ ticks = 0
    /\ providers = [k \in Kinds |-> NewProvider]
    /\ call = NoCall
    /\ calls = 0
    /\ factory = NewFactory
    /\ display = NewDisplay(FALSE)
    /\ perf = NewPerf
    /\ upd = NoUpd
    /\ ocall = NoOCall
    /\ app = NewApp
    /\ event = NoEvent
    /\ steps = 0

(***************************************************************************)
(* SpecKey: _create_cache_key on two parameter maps.                       *)
(***************************************************************************)
InitKey ==
    /\ kp1 \in KeyInputs
    /\ kp2 \in KeyInputs
    /\ kk1 = NoKey
    /\ kk2 = NoKey
    /\ kpc = "start"
    /\ ProvidersConstructed
    /\ MeshIdle

ComputeKeys ==
    /\ kpc = "start"
    /\ kk1' = create_cache_key(kp1)
    /\ kk2' = create_cache_key(kp2)
    /\ kpc' = "done"
    /\ UNCHANGED <<kp1, kp2, clockVars, providerVars, meshVars, appVars>>

NextKey == ComputeKeys

SpecKey == InitKey /\ [][NextKey]_vars

(***************************************************************************)
(* SpecCache: the two providers, called directly.                          *)
(***************************************************************************)
InitCache == KeyIdle /\ ProvidersConstructed /\ MeshIdle

Tick ==
    /\ ticks < MaxTicks
    /\ now' = now + TickMs
    /\ ticks' = ticks + 1
    /\ UNCHANGED <<keyVars, providerVars, meshVars, appVars>>

(* CreateGeometry of a provider that answers a call for an evicted key     *)
(* from a copy it kept, as a hit, building and storing nothing.            *)
CreateGeometry_serves_evicted ==
    /\ calls < MaxCalls
    /\ \E kind \in Kinds : \E params \in ProviderInputs(kind) :
        \E key \in {create_cache_key(params)} :
        \E r \in {create_geometry(providers[kind], kind, params, now)} :
        IF key.ok /\ key \in providers[kind].evicted
                  /\ key \notin CacheKeys(providers[kind].cache)
        THEN /\ providers' = [providers EXCEPT ![kind].hits = @ + 1]
             /\ call' = [op |-> "create_geometry", kind |-> kind,
                         params |-> params, key |-> key,
                         ret |-> Build(kind, params, <<kind, 0>>),
                         raised |-> "none"]
             /\ calls' = calls + 1
        ELSE /\ providers' = [providers EXCEPT ![kind] = r.P]
             /\ call' = [op |-> "create_geometry", kind |-> kind,
                         params |-> params, key |-> key, ret |-> r.ret,
                         raised |-> r.raised]
             /\ calls' = calls + 1
    /\ UNCHANGED <<keyVars, clockVars, meshVars, appVars>>

(* CreateGeometry of providers that share their hit and miss counters: a   *)
(* lookup is counted in both.                                              *)
CreateGeometry_shared_counters ==
    /\ calls < MaxCalls
    /\ \E kind \in Kinds : \E params \in ProviderInputs(kind) :
        \E r \in {create_geometry(providers[kind], kind, params, now)} :
        /\ providers' =
                [j \in Kinds |->
                    IF j = kind THEN r.P
                    ELSE [providers[j] EXCEPT
                            !.hits = @ + (r.P.hits - providers[kind].hits),
                            !.misses = @ + (r.P.misses - providers[kind].misses)]]
        /\ call' = [op |-> "create_geometry", kind |-> kind, params |-> params,
                    key |-> create_cache_key(params), ret |-> r.ret,
                    raised |-> r.raised]
        /\ calls' = calls + 1
    /\ UNCHANGED <<keyVars, clockVars, meshVars, appVars>>

CreateGeometry ==
    /\ calls < MaxCalls
    /\ \E kind \in Kinds : \E params \in ProviderInputs(kind) :
        LET r == create_geometry(providers[kind], kind, params, now) IN
        /\ providers' = [providers EXCEPT ![kind] = r.P]
        /\ call' = [op |-> "create_geometry", kind |-> kind, params |-> params,
                    key |-> create_cache_key(params), ret |-> r.ret,
                    raised |-> r.raised]
        /\ calls' = calls + 1
    /\ UNCHANGED <<keyVars, clockVars, meshVars, appVars>>

NextCache == Tick \/ CreateGeometry

SpecCache == InitCache /\ [][NextCache]_vars

(***************************************************************************)
(* Spec: the running application.  It starts when MainApp.__init__ has     *)
(* returned; a step is one callback of the user interface, or the clock.   *)
(***************************************************************************)
World ==
    [providers |-> providers, factory |-> factory, display |-> display,
     perf |-> perf, upd |-> upd, ocall |-> ocall]

Init ==
    /\ KeyIdle
    /\ MeshIdle
    /\ now = T0
    /\ ticks = 0
    /\ call = NoCall
    /\ calls = 0
    /\ \E s \in {Started(T0)} :
        /\ providers = s.W.providers
        /\ factory = s.W.factory
        /\ display = s.W.display
        /\ perf = s.W.perf
        /\ upd = s.W.upd
        /\ ocall = s.W.ocall
        /\ app = s.A
    /\ event = NoEvent
    /\ steps = 0

(* The state a handler leaves, d ms after it started. *)
Handled(name, o, d) ==
    /\ providers' = o.W.providers
    /\ factory' = o.W.factory
    /\ display' = o.W.display
    /\ perf' = o.W.perf
    /\ upd' = o.W.upd
    /\ ocall' = o.W.ocall
    /\ app' = o.A
    /\ event' = [name |-> name, raised |-> o.raised]
    /\ steps' = steps + 1
    /\ now' = now + d
    /\ UNCHANGED <<keyVars, ticks, call, calls, meshVars>>

(* Idle with a timer that applies the last dropped update once the        *)
(* debounce window has elapsed.                                            *)
Idle_replays ==
    /\ steps < MaxSteps
    /\ now' = now + TickMs
    /\ event' = [name |-> "idle", raised |-> "none"]
    /\ steps' = steps + 1
    /\ display' = IF display.pending_updates > 0
                  THEN update_display(display, upd.result, now + TickMs)
                  ELSE display
    /\ UNCHANGED <<keyVars, ticks, providerVars, meshVars, factory,
                   perf, upd, ocall, app>>

(* No callback runs for TickMs. *)
Idle ==
    /\ steps < MaxSteps
    /\ now' = now + TickMs
    /\ event' = [name |-> "idle", raised |-> "none"]
    /\ steps' = steps + 1
    /\ UNCHANGED <<keyVars, ticks, providerVars, meshVars, factory, display,
                   perf, upd, ocall, app>>

OnParametersChange ==
    /\ steps < MaxSteps
    /\ \E params \in SliderInputs : \E d \in BuildDelays :
        \E o \in {on_parameters_change(app, World, params, now, d)} :
            Handled("_on_parameters_change", o, d)

OnObjectChange ==
    /\ steps < MaxSteps
    /\ \E selected \in Kinds :
        \E o \in {on_object_change(app, World, selected, now, 0)} :
            Handled("_on_object_change", o, 0)

DisplayAllFavorites ==
    /\ steps < MaxSteps
    /\ \E favorites_list \in FavoriteLists :
        \E o \in {display_all_favorites(app, World, favorites_list, now)} :
            Handled("_display_all_favorites", o, 0)

ClearFavoriteObjects ==
    /\ steps < MaxSteps
    /\ \E o \in {clear_favorite_objects(app, World)} :
        Handled("_clear_favorite_objects", o, 0)

Next ==
    \/ Idle
    \/ OnParametersChange
    \/ OnObjectChange
    \/ DisplayAllFavorites
    \/ ClearFavoriteObjects

Spec == Init /\ [][Next]_vars

(***************************************************************************)
(* SpecRebuild: the running application with the callback the controls are *)
(* given for loading a favorite, _rebuild_with_params, which               *)
(* ParametricControls._load_current_favorite_object calls with the         *)
(* parameters and the object type of an entry of the favorites file.       *)
(***************************************************************************)
RebuildEntries ==
    UNION {{favorites_list[i] : i \in 1..Len(favorites_list)} :
                favorites_list \in FavoriteLists}

RebuildWithParams ==
    /\ steps < MaxSteps
    /\ \E entry \in RebuildEntries :
        \E o \in {rebuild_with_params(app, World, entry.parameters,
                                      entry.object_type, now, 0)} :
            Handled("_rebuild_with_params", o, 0)

NextRebuild ==
    \/ Idle
    \/ OnParametersChange
    \/ OnObjectChange
    \/ DisplayAllFavorites
    \/ ClearFavoriteObjects
    \/ RebuildWithParams

SpecRebuild == Init /\ [][NextRebuild]_vars

(***************************************************************************)
(* Coordinates.  Lengths are in units of 1/Scale; an angle is a whole      *)
(* number of 3-degree steps, and math.cos is read from a table of cosines  *)
(* to four decimals.                                                       *)
(***************************************************************************)
CosTable ==
    <<10000, 9986, 9945, 9877, 9781, 9659, 9511, 9336,
      9135, 8910, 8660, 8387, 8090, 7771, 7431, 7071,
      6691, 6293, 5878, 5446, 5000, 4540, 4067, 3584,
      3090, 2588, 2079, 1564, 1045, 523, 0>>

(* math.cos of k * 3 degrees, times Scale *)
Cos3(k) ==
    LET a == k % 120
        b == IF a > 60 THEN 120 - a ELSE a
    IN IF b <= 30 THEN CosTable[b + 1] ELSE 0 - CosTable[(60 - b) + 1]

(* math.sin of k * 3 degrees, times Scale *)
Sin3(k) == Cos3(k - 30)

(* a * c for a length a and a cosine c *)
Times(a, c) == (a * c) \div Scale

(* angle = (2.0 * math.pi * i) / segments, in 3-degree steps *)
AngleOf(i) == (120 * i) \div segments

(* get_inner_surface_modulation without the groove and the wave term *)
get_surface_modulation_plain_inner(args, shell, k) ==
    LET groove ==
            CASE args.twist_groove_depth.n = 0 -> 0
              [] args.twist_groove_depth.n # 0 /\ args.twist_angle.n = 0 ->
                    Times((args.twist_groove_depth.n * 6) \div 100,
                          Cos3((args.segment_count.n \div Scale) * k))
        wave ==
            CASE args.vertical_wave_depth.n = 0 -> 0
              [] args.vertical_wave_depth.n # 0 /\ args.vertical_wave_freq.n = 0 ->
                    (args.vertical_wave_depth.n * 15) \div 100
    IN IF shell = "inner" THEN args.object_width.n - (Scale \div 2)
       ELSE args.object_width.n + groove + wave

(* get_surface_modulation / get_inner_surface_modulation at angle k and at *)
(* a level of the axis.  The groove term is 0 when the groove depth is 0,  *)
(* and is read from the table when the twist angle is 0 (phi is then the   *)
(* angle itself); the wave term is 0 when the wave depth is 0, and is      *)
(* cos(0) = 1 times the depth factor when the wave frequency is 0.         *)
get_surface_modulation(args, shell, k) ==
    LET base == IF shell = "inner" THEN args.object_width.n - (Scale \div 2)
                ELSE args.object_width.n
        groove ==
            CASE args.twist_groove_depth.n = 0 -> 0
              [] args.twist_groove_depth.n # 0 /\ args.twist_angle.n = 0 ->
                    Times((args.twist_groove_depth.n * 6) \div 100,
                          Cos3((args.segment_count.n \div Scale) * k))
        wave ==
            CASE args.vertical_wave_depth.n = 0 -> 0
              [] args.vertical_wave_depth.n # 0 /\ args.vertical_wave_freq.n = 0 ->
                    (args.vertical_wave_depth.n * 15) \div 100
    IN base + groove + wave

(* height = 7.0 *)
VaseHeight == 7 * Scale

ZOfUpperHalf(level) ==
    (VaseHeight \div 2) - ((VaseHeight * level) \div (2 * height_segments))

(* z of a level: half_height - (height * level) / height_segments *)
ZOf(level) == (VaseHeight \div 2) - ((VaseHeight * level) \div height_segments)

(* The coordinates add_vertex is given for a position. *)
Coord(p) ==
    LET k == AngleOf(p.step)
        r == get_surface_modulation(margs, p.shell, k)
    IN [x |-> Times(r, Cos3(k)), y |-> Times(r, Sin3(k)), z |-> ZOf(p.level)]

Lower(a, b) == IF a < b THEN a ELSE b
Higher(a, b) == IF a > b THEN a ELSE b

(* add_vertex: the bounding box after one more vertex *)
add_vertex(box, c) ==
    [min_x |-> Lower(box.min_x, c.x), max_x |-> Higher(box.max_x, c.x),
     min_y |-> Lower(box.min_y, c.y), max_y |-> Higher(box.max_y, c.y),
     min_z |-> Lower(box.min_z, c.z), max_z |-> Higher(box.max_z, c.z)]

(* add_vertex for each position of a list, in order *)
RECURSIVE add_vertices(_, _)
add_vertices(box, ps) ==
    IF ps = <<>> THEN box
    ELSE add_vertices(add_vertex(box, Coord(ps[1])), Tail(ps))

(***************************************************************************)
(* SpecVase: vaseGeometry's vertex and index bookkeeping, one action per   *)
(* loop, one step per loop iteration.  A vertex row is recorded as the     *)
(* position it is written at: the shell, the angular step i and the axial  *)
(* level (level 0 is z = half_height and length ratio 1.0, level           *)
(* height_segments is z = -half_height and length ratio 0.0; band h spans  *)
(* the levels h and h + 1).  Row numbers start at 0, as getWriteRow() - 1. *)
(***************************************************************************)
Pos(shell, i, level) == [shell |-> shell, step |-> i, level |-> level]

(* ring[i] of a Python list *)
At(ring, i) == ring[i + 1]

NextI(i) == (i + 1) % segments

(* vaseGeometry entered with arguments args, its tessellation n by h *)
VaseEntered(args, n, h) ==
    /\ KeyIdle
    /\ ProvidersConstructed
    /\ margs = args
    /\ segments = n
    /\ height_segments = h
    /\ mpc = "top_outer"
    /\ mi = 0
    /\ mh = 0
    /\ vertices = <<>>
    /\ indices = <<>>
    /\ rings = NoRings
    /\ bbox = NoBox
    /\ mret = NoReturn

InitVase ==
    \E n \in 3..MaxN : \E h \in 1..MaxH :
        VaseEntered(BuilderArgs(ParamsA), n, h)

(* the end of one iteration of "for i in range(segments)" *)
LoopStep(next) ==
    /\ mi' = IF mi + 1 < segments THEN mi + 1 ELSE 0
    /\ mpc' = IF mi + 1 < segments THEN mpc ELSE next

TopOuterRing ==
    /\ mpc = "top_outer"
    /\ vertices' = Append(vertices, Pos("outer", mi, 0))
    /\ bbox' = add_vertex(bbox, Coord(Pos("outer", mi, 0)))
    /\ rings' = [rings EXCEPT !.top_outer = Append(@, Len(vertices))]
    /\ LoopStep("top_inner")
    /\ UNCHANGED <<segments, height_segments, mh, indices, margs, mret>>
    /\ UNCHANGED <<keyVars, clockVars, providerVars, appVars>>

TopInnerRing ==
    /\ mpc = "top_inner"
    /\ vertices' = Append(vertices, Pos("inner", mi, 0))
    /\ bbox' = add_vertex(bbox, Coord(Pos("inner", mi, 0)))
    /\ rings' = [rings EXCEPT !.top_inner = Append(@, Len(vertices))]
    /\ LoopStep("bottom_outer")
    /\ UNCHANGED <<segments, height_segments, mh, indices, margs, mret>>
    /\ UNCHANGED <<keyVars, clockVars, providerVars, appVars>>

BottomOuterRing ==
    /\ mpc = "bottom_outer"
    /\ vertices' = Append(vertices, Pos("outer", mi, height_segments))
    /\ bbox' = add_vertex(bbox, Coord(Pos("outer", mi, height_segments)))
    /\ rings' = [rings EXCEPT !.bottom_outer = Append(@, Len(vertices))]
    /\ LoopStep("bottom_inner")
    /\ UNCHANGED <<segments, height_segments, mh, indices, margs, mret>>
    /\ UNCHANGED <<keyVars, clockVars, providerVars, appVars>>

BottomInnerRing ==
    /\ mpc = "bottom_inner"
    /\ vertices' = Append(vertices, Pos("inner", mi, height_segments))
    /\ bbox' = add_vertex(bbox, Coord(Pos("inner", mi, height_segments)))
    /\ rings' = [rings EXCEPT !.bottom_inner = Append(@, Len(vertices))]
    /\ LoopStep("top_faces")
    /\ UNCHANGED <<segments, height_segments, mh, indices, margs, mret>>
    /\ UNCHANGED <<keyVars, clockVars, providerVars, appVars>>

TopFaces ==
    /\ mpc = "top_faces"
    /\ LET o == rings.top_outer
           n == rings.top_inner
           next_i == NextI(mi)
       IN indices' = indices \o
            << <<At(o, mi), At(n, mi), At(n, next_i)>>,
               <<At(o, mi), At(n, next_i), At(o, next_i)>> >>
    /\ LoopStep("bottom_faces")
    /\ UNCHANGED <<segments, height_segments, mh, vertices, rings, margs,
                   bbox, mret>>
    /\ UNCHANGED <<keyVars, clockVars, providerVars, appVars>>

BottomFaces ==
    /\ mpc = "bottom_faces"
    /\ LET o == rings.bottom_outer
           n == rings.bottom_inner
           next_i == NextI(mi)
       IN indices' = indices \o
            << <<At(o, mi), At(n, next_i), At(n, mi)>>,
               <<At(o, mi), At(o, next_i), At(n, next_i)>> >>
    /\ LoopStep("band_vertices")
    /\ UNCHANGED <<segments, height_segments, mh, vertices, rings, margs,
                   bbox, mret>>
    /\ UNCHANGED <<keyVars, clockVars, providerVars, appVars>>

(* The four vertices of angular step i in band h; the band's lists start   *)
(* empty at i = 0.                                                         *)
BandVertices ==
    /\ mpc = "band_vertices"
    /\ LET r == IF mi = 0
                THEN [rings EXCEPT !.outer_upper = <<>>, !.outer_lower = <<>>,
                                   !.inner_upper = <<>>, !.inner_lower = <<>>]
                ELSE rings
           row == Len(vertices)
           added == << Pos("outer", mi, mh), Pos("outer", mi, mh + 1),
                       Pos("inner", mi, mh), Pos("inner", mi, mh + 1) >>
       IN /\ vertices' = vertices \o added
          /\ bbox' = add_vertices(bbox, added)
          /\ rings' = [r EXCEPT !.outer_upper = Append(@, row),
                                !.outer_lower = Append(@, row + 1),
                                !.inner_upper = Append(@, row + 2),
                                !.inner_lower = Append(@, row + 3)]
    /\ LoopStep("outer_quads")
    /\ UNCHANGED <<segments, height_segments, mh, indices, margs, mret>>
    /\ UNCHANGED <<keyVars, clockVars, providerVars, appVars>>

OuterQuads ==
    /\ mpc = "outer_quads"
    /\ LET u == rings.outer_upper
           l == rings.outer_lower
           next_i == NextI(mi)
       IN indices' = indices \o
            << <<At(u, mi), At(l, mi), At(l, next_i)>>,
               <<At(u, mi), At(l, next_i), At(u, next_i)>> >>
    /\ LoopStep("inner_quads")
    /\ UNCHANGED <<segments, height_segments, mh, vertices, rings, margs,
                   bbox, mret>>
    /\ UNCHANGED <<keyVars, clockVars, providerVars, appVars>>

InnerQuads ==
    /\ mpc = "inner_quads"
    /\ LET u == rings.inner_upper
           l == rings.inner_lower
           next_i == NextI(mi)
       IN indices' = indices \o
            << <<At(u, mi), At(u, next_i), At(l, mi)>>,
               <<At(l, mi), At(u, next_i), At(l, next_i)>> >>
    /\ LoopStep("wall_faces")
    /\ UNCHANGED <<segments, height_segments, mh, vertices, rings, margs,
                   bbox, mret>>
    /\ UNCHANGED <<keyVars, clockVars, providerVars, appVars>>

(* The upper and the lower wall face of angular step i in band h; after    *)
(* the last step the next band starts, or the build is done.               *)
WallFaces ==
    /\ mpc = "wall_faces"
    /\ LET ou == rings.outer_upper
           ol == rings.outer_lower
           iu == rings.inner_upper
           il == rings.inner_lower
           next_i == NextI(mi)
       IN indices' = indices \o
            << <<At(ou, mi), At(ou, next_i), At(iu, mi)>>,
               <<At(iu, mi), At(ou, next_i), At(iu, next_i)>>,
               <<At(ol, mi), At(il, mi), At(ol, next_i)>>,
               <<At(il, mi), At(il, next_i), At(ol, next_i)>> >>
    /\ mi' = IF mi + 1 < segments THEN mi + 1 ELSE 0
    /\ mh' = IF mi + 1 < segments THEN mh ELSE mh + 1
    /\ mpc' = IF mi + 1 < segments THEN mpc
              ELSE IF mh + 1 < height_segments THEN "band_vertices"
              ELSE "return"
    /\ UNCHANGED <<segments, height_segments, vertices, rings, margs, bbox,
                   mret>>
    /\ UNCHANGED <<keyVars, clockVars, providerVars, appVars>>

(* diameter = max_x - min_x; return ObjectType, geom, height, diameter *)
VaseReturn ==
    /\ mpc = "return"
    /\ mret' = [len |-> 4, type |-> "Vase", geom |-> margs,
                height |-> PyFloat(VaseHeight),
                diameter |-> PyFloat(bbox.max_x - bbox.min_x)]
    /\ mpc' = "done"
    /\ UNCHANGED <<segments, height_segments, mi, mh, vertices, indices,
                   rings, margs, bbox>>
    /\ UNCHANGED <<keyVars, clockVars, providerVars, appVars>>

NextVase ==
    \/ TopOuterRing \/ TopInnerRing \/ BottomOuterRing \/ BottomInnerRing
    \/ TopFaces \/ BottomFaces
    \/ BandVertices \/ OuterQuads \/ InnerQuads \/ WallFaces
    \/ VaseReturn

SpecVase == InitVase /\ [][NextVase]_vars

(***************************************************************************)
(* SpecVaseBox: vaseGeometry with the tessellation of the code around the  *)
(* axis (segments = 40), for arguments whose radius the table of cosines   *)
(* gives: no twist, wave frequency 0 or no wave.                           *)
(***************************************************************************)
VaseSegments == 40

BoxArgs(seg, w, gd, wf, wd) ==
    BuilderArgs(MkParams(PyFloat(seg), PyFloat(w), PyFloat(0), PyFloat(gd),
                         PyFloat(wf), PyFloat(wd)))

BoxInputs ==
    { BuilderArgs(ParamsA),                     \* 5.0, 2.5, twist 20, depths 0
      BuilderArgs(ParamsB),                     \* width 2.6, depths 0
      BoxArgs(30000, 25000, 50000, 30000, 0),   \* 3 grooves of depth 5
      BoxArgs(20000, 25000, 50000, 30000, 0),   \* 2 grooves of depth 5
      BoxArgs(50000, 25000, 10000, 0, 10000) }  \* groove 1, flat wave 1

InitVaseBox ==
    \E args \in BoxInputs : \E h \in 1..MaxH :
        VaseEntered(args, VaseSegments, h)

SpecVaseBox == InitVaseBox /\ [][NextVase]_vars

(***************************************************************************)
(* SpecTable: tableGeometry's vertex and index bookkeeping, one action per *)
(* loop, one step per loop iteration.  Positions are recorded as for the   *)
(* vase; the two centres are on the axis, the surface is the one shell.    *)
(* The table builder tracks no bounding box.                               *)
(***************************************************************************)
TableRings ==
    [top_center |-> 0, bottom_center |-> 0, top_vertices |-> <<>>,
     bottom_vertices |-> <<>>]

TableInputs == {BuilderArgs(ParamsA), BuilderArgs(ParamsB)}

InitTable ==
    \E args \in TableInputs : \E n \in 3..MaxN : \E h \in 1..MaxH :
        /\ KeyIdle
        /\ ProvidersConstructed
        /\ margs = args
        /\ segments = n
        /\ height_segments = h
        /\ mpc = "centers"
        /\ mi = 0
        /\ mh = 0
        /\ vertices = <<>>
        /\ indices = <<>>
        /\ rings = TableRings
        /\ bbox = NoBox
        /\ mret = NoReturn

(* top_center = add_vertex(0, 0, half_height, ...); bottom_center = ... *)
TableCenters ==
    /\ mpc = "centers"
    /\ vertices' = vertices \o
            << Pos("axis", 0, 0), Pos("axis", 0, height_segments) >>
    /\ rings' = [rings EXCEPT !.top_center = Len(vertices),
                              !.bottom_center = Len(vertices) + 1]
    /\ mpc' = "ring"
    /\ UNCHANGED <<segments, height_segments, mi, mh, indices, margs, bbox,
                   mret>>
    /\ UNCHANGED <<keyVars, clockVars, providerVars, appVars>>

(* top_v and bottom_v of one angular step *)
TableRing ==
    /\ mpc = "ring"
    /\ vertices' = vertices \o
            << Pos("surface", mi, 0), Pos("surface", mi, height_segments) >>
    /\ rings' = [rings EXCEPT
                    !.top_vertices = Append(@, Len(vertices)),
                    !.bottom_vertices = Append(@, Len(vertices) + 1)]
    /\ LoopStep("top_fan")
    /\ UNCHANGED <<segments, height_segments, mh, indices, margs, bbox, mret>>
    /\ UNCHANGED <<keyVars, clockVars, providerVars, appVars>>

(* (top_center, top_vertices[i], top_vertices[next_i]) *)
TableTopFan ==
    /\ mpc = "top_fan"
    /\ indices' = Append(indices,
            << rings.top_center, At(rings.top_vertices, mi),
               At(rings.top_vertices, NextI(mi)) >>)
    /\ LoopStep("bottom_fan")
    /\ UNCHANGED <<segments, height_segments, mh, vertices, rings, margs,
                   bbox, mret>>
    /\ UNCHANGED <<keyVars, clockVars, providerVars, appVars>>

(* (bottom_center, bottom_vertices[next_i], bottom_vertices[i]) *)
TableBottomFan ==
    /\ mpc = "bottom_fan"
    /\ indices' = Append(indices,
            << rings.bottom_center, At(rings.bottom_vertices, NextI(mi)),
               At(rings.bottom_vertices, mi) >>)
    /\ LoopStep("wall")
    /\ UNCHANGED <<segments, height_segments, mh, vertices, rings, margs,
                   bbox, mret>>
    /\ UNCHANGED <<keyVars, clockVars, providerVars, appVars>>

TableQuadCrossed(v1, v2, v3, v4) == << <<v1, v2, v3>>, <<v2, v3, v4>> >>

TableQuadHalf(v1, v2, v3, v4) == << <<v1, v2, v3>> >>

TableQuadCollapsed(v1, v2, v3, v4) == << <<v1, v2, v3>>, <<v1, v3, v3>> >>

(* the two triangles of a wall quad: (v1, v2, v3), (v1, v3, v4) *)
TableQuad(v1, v2, v3, v4) == << <<v1, v2, v3>>, <<v1, v3, v4>> >>

(* One quad of the side wall: band mh, angular step mi.  v1 and v4 are on  *)
(* the band's upper level, v2 and v3 on its lower level; v1 and v2 at      *)
(* angle1, v3 and v4 at angle2.                                            *)
TableWall ==
    /\ mpc = "wall"
    /\ LET row == Len(vertices)
           next_i == NextI(mi)
       IN /\ vertices' = vertices \o
                << Pos("surface", mi, mh), Pos("surface", mi, mh + 1),
                   Pos("surface", next_i, mh + 1), Pos("surface", next_i, mh) >>
          /\ indices' = indices \o TableQuad(row, row + 1, row + 2, row + 3)
    /\ mi' = IF mi + 1 < segments THEN mi + 1 ELSE 0
    /\ mh' = IF mi + 1 < segments THEN mh ELSE mh + 1
    /\ mpc' = IF mi + 1 < segments \/ mh + 1 < height_segments
              THEN "wall" ELSE "return"
    /\ UNCHANGED <<segments, height_segments, rings, margs, bbox, mret>>
    /\ UNCHANGED <<keyVars, clockVars, providerVars, appVars>>

(* return ObjectType, geom *)
TableReturn ==
    /\ mpc = "return"
    /\ mret' = tableGeometry(margs)
    /\ mpc' = "done"
    /\ UNCHANGED <<segments, height_segments, mi, mh, vertices, indices,
                   rings, margs, bbox>>
    /\ UNCHANGED <<keyVars, clockVars, providerVars, appVars>>

NextTable ==
    \/ TableCenters
    \/ TableRing
    \/ TableTopFan
    \/ TableBottomFan
    \/ TableWall
    \/ TableReturn

SpecTable == InitTable /\ [][NextTable]_vars

(***************************************************************************)
(* Properties of the geometry caches (SpecCache).                          *)
(***************************************************************************)
EntryOf(cache, key) == cache[CacheIndex(cache, key)]

(* A step that is a completed or failed create_geometry call. *)
IsCall == calls' = calls + 1 /\ call'.op = "create_geometry"

(* C1: a create_geometry call whose normalized key is present in the kind's *)
(* cache returns the very GeometryResult stored under that key (the one the *)
(* call that inserted the entry built and returned), does not invoke the    *)
(* mesh builder, adds one to the hit count and leaves the miss count alone; *)
(* the call that inserts an entry returns the result it stores, and a       *)
(* stored result never changes while its entry stays in the cache.          *)
C1_CacheIdempotence ==
    [][\A k \in Kinds :
        LET P == providers[k]
            Q == providers'[k]
        IN /\ \A key \in CacheKeys(P.cache) \cap CacheKeys(Q.cache) :
                EntryOf(Q.cache, key).geometry_result
                    = EntryOf(P.cache, key).geometry_result
           /\ (IsCall /\ call'.kind = k /\ call'.key.ok) =>
                IF call'.key \in CacheKeys(P.cache)
                THEN /\ call'.raised = "none"
                     /\ call'.ret = EntryOf(P.cache, call'.key).geometry_result
                     /\ call'.key \in CacheKeys(Q.cache)
                     /\ Q.builds = P.builds
                     /\ Q.hits = P.hits + 1
                     /\ Q.misses = P.misses
                ELSE /\ call'.key \in CacheKeys(Q.cache)
                     /\ call'.ret = EntryOf(Q.cache, call'.key).geometry_result
    ]_vars

(* C1 witness: the last call asked for parameters q and was answered, as a  *)
(* hit, with the result built earlier from different parameters p.          *)
C1_Witness ==
    /\ call.op = "create_geometry"
    /\ call.raised = "none"
    /\ call.ret.geometry # BuilderArgs(call.params)
    /\ call.key \in CacheKeys(providers[call.kind].cache)
    /\ EntryOf(providers[call.kind].cache, call.key).access_count >= 1
    /\ EntryOf(providers[call.kind].cache, call.key).geometry_result = call.ret

(* C2: each kind's cache holds at most GEOMETRY_CACHE_SIZE entries, under   *)
(* distinct keys; after capacity + 1 misses (insertions of distinct keys    *)
(* into the empty cache) the size is the capacity: one entry was evicted.   *)
C2_EvictionBound ==
    \A k \in Kinds :
        LET P == providers[k] IN
        /\ Len(P.cache) <= GEOMETRY_CACHE_SIZE
        /\ Cardinality(CacheKeys(P.cache)) = Len(P.cache)
        /\ (P.misses <= GEOMETRY_CACHE_SIZE => Len(P.cache) = P.misses)
        /\ (P.misses = GEOMETRY_CACHE_SIZE + 1 =>
                Len(P.cache) = GEOMETRY_CACHE_SIZE)

(* C2 witness: capacity + 1 distinct keys were inserted, nothing else.      *)
C2_Witness ==
    \E k \in Kinds :
        /\ providers[k].misses = GEOMETRY_CACHE_SIZE + 1
        /\ providers[k].hits = 0
        /\ Len(providers[k].cache) = GEOMETRY_CACHE_SIZE

(* C3: an entry leaves the cache only in a miss on a full cache; exactly    *)
(* one entry leaves, its timestamp is the smallest of all cached entries    *)
(* and it is the first such entry in the store's scan order.  So an entry   *)
(* touched strictly after another entry's last touch is not the one         *)
(* evicted while the other is cached.                                       *)
C3_OldestEvicted ==
    [][\A k \in Kinds :
        LET P == providers[k]
            Q == providers'[k]
            gone == {i \in 1..Len(P.cache) : P.cache[i].key \notin CacheKeys(Q.cache)}
        IN /\ (gone # {}) =>
                /\ Cardinality(gone) = 1
                /\ Len(P.cache) = GEOMETRY_CACHE_SIZE
                /\ Q.misses = P.misses + 1
                /\ \A i \in gone :
                    /\ \A j \in 1..Len(P.cache) :
                         P.cache[i].timestamp <= P.cache[j].timestamp
                    /\ \A j \in 1..(i - 1) :
                         P.cache[j].timestamp > P.cache[i].timestamp
                    /\ \A j \in 1..Len(P.cache) :
                         P.cache[j].timestamp < P.cache[i].timestamp
                            => j \in gone
           /\ (Q.misses = P.misses + 1 /\ Len(P.cache) = GEOMETRY_CACHE_SIZE)
                => gone # {}
    ]_vars

(* C3 witness: the entry built first was hit later, so a miss on the full   *)
(* cache evicted an entry inserted after it and the first one survived.     *)
C3_Witness ==
    \E k \in Kinds :
        /\ providers[k].misses > GEOMETRY_CACHE_SIZE
        /\ \E i \in 1..Len(providers[k].cache) :
            /\ providers[k].cache[i].geometry_result.rid = <<k, 1>>
            /\ providers[k].cache[i].access_count >= 1

(***************************************************************************)
(* Properties of the running application (Spec).                           *)
(***************************************************************************)
(* What an applied update_display shows for a result. *)
MetricsOf(geometry_result) ==
    calculate_display_data(display, geometry_result).ui_metrics

(* The last update_display call came inside the debounce window. *)
LastCallInWindow ==
    upd.t - upd.before.last_update_time < PARAMETER_UPDATE_DEBOUNCE

(* C4: an update_display call made less than PARAMETER_UPDATE_DEBOUNCE     *)
(* after the last applied update leaves the readout, the camera framing,   *)
(* the display cache and the last-applied time as they were and adds one   *)
(* to the pending counter; a call outside the window is applied and        *)
(* stamps the last-applied time.  So the last-applied time only ever       *)
(* moves by a full window or more.                                         *)
C4_DebounceDrop ==
    upd.n > 0 =>
        /\ IF LastCallInWindow
           THEN upd.after = [upd.before EXCEPT !.pending_updates = @ + 1]
           ELSE /\ upd.after.last_update_time = upd.t
                /\ upd.after.pending_updates = 0
        /\ upd.after.last_update_time # upd.before.last_update_time =>
              upd.after.last_update_time - upd.before.last_update_time
                  >= PARAMETER_UPDATE_DEBOUNCE

(* C4 witness: a call carrying data other than what is shown was dropped   *)
(* after an earlier call had been applied.                                 *)
C4_Witness ==
    /\ upd.n >= 2
    /\ LastCallInWindow
    /\ upd.before.last_update_time > 0
    /\ upd.after.pending_updates = upd.before.pending_updates + 1
    /\ MetricsOf(upd.result) # display.readout
    /\ display.readout = upd.before.readout

(* A step in which an update_display call was accepted. *)
AcceptedUpdate ==
    /\ upd'.n = upd.n + 1
    /\ upd'.t - upd'.before.last_update_time >= PARAMETER_UPDATE_DEBOUNCE

(* C5: only an accepted update_display call changes the readout, the       *)
(* display cache or the last-applied time, and only such a call or the     *)
(* showing and clearing of favorites moves the camera: the passing of      *)
(* time, and every other step, leaves what the last applied update showed, *)
(* whatever calls were dropped since.                                      *)
C5_DroppedNeverReplayed ==
    [][~AcceptedUpdate =>
            /\ display'.readout = display.readout
            /\ display'.display_cache = display.display_cache
            /\ display'.last_update_time = display.last_update_time
            /\ event'.name \notin {"_display_all_favorites",
                                    "_clear_favorite_objects"} =>
                    display'.camera = display.camera
    ]_vars

(* C5 witness: the last update_display call, for the mesh the primary      *)
(* object now holds, was dropped; the window has since elapsed with no     *)
(* callback running, and the readout still shows the earlier mesh.         *)
C5_Witness ==
    /\ event.name = "idle"
    /\ upd.n >= 2
    /\ LastCallInWindow
    /\ now - display.last_update_time >= PARAMETER_UPDATE_DEBOUNCE
    /\ display.pending_updates > 0
    /\ factory.paths[app.cylinder_np].attached
    /\ factory.nodes[factory.paths[app.cylinder_np].node].geoms
            = <<upd.result.rid>>
    /\ display.readout # MetricsOf(upd.result)
    /\ display.readout = upd.before.readout

(* C6: displaying favorites makes no update_display call and so leaves     *)
(* the readout, the display cache, the pending counter and the             *)
(* last-applied time as they were.  (The camera is left out: the favorites *)
(* display resets it to the default view by itself.)                       *)
C6_FavoritesSkipDisplay ==
    [][(steps' = steps + 1 /\ event'.name = "_display_all_favorites") =>
            /\ upd'.n = upd.n
            /\ display'.readout = display.readout
            /\ display'.display_cache = display.display_cache
            /\ display'.pending_updates = display.pending_updates
            /\ display'.last_update_time = display.last_update_time
    ]_vars

(* C7: a create_object call for a kind with no provider raises ValueError  *)
(* and leaves the service as it found it: the providers' caches and        *)
(* counters, the node pool, the nodes and NodePaths, the display manager,  *)
(* the creation times and the creation count.                              *)
C7_UnsupportedKind ==
    (ocall.n > 0 /\ ocall.object_type \notin Kinds) =>
        /\ ocall.raised = "ValueError"
        /\ ocall.after = ocall.before

(* C7 witness: the favorites display asked for a "Chair" and failed, in a  *)
(* service that had created objects before.                                *)
C7_Witness ==
    /\ ocall.object_type = "Chair"
    /\ ocall.raised = "ValueError"
    /\ event = [name |-> "_display_all_favorites", raised |-> "ValueError"]
    /\ ocall.before.perf.total_creations >= 2
    /\ perf = ocall.before.perf
    /\ display = ocall.before.display

(***************************************************************************)
(* Properties of the geometry caches, continued (SpecCache).               *)
(***************************************************************************)
(* C8: create_geometry with a parameter map that lacks a required field     *)
(* raises (KeyError) and leaves the provider as it was: no entry added,     *)
(* evicted or re-stamped, hit and miss counts unchanged.                    *)
C8_MissingParameter ==
    [][(IsCall /\ ~HasAllFields(call'.params)) =>
            /\ call'.raised = "KeyError"
            /\ call'.ret = NoResult
            /\ providers' = providers
    ]_vars

(* C8 witness: a call with a missing field failed on a non-empty cache.     *)
C8_Witness ==
    /\ call.op = "create_geometry"
    /\ ~HasAllFields(call.params)
    /\ call.raised = "KeyError"
    /\ Len(providers[call.kind].cache) >= 1

(***************************************************************************)
(* Properties of the cache key (SpecKey).                                  *)
(***************************************************************************)
(* The precision the key gives each field: 0 stands for int(). *)
KeyDigits(f) ==
    IF f = "Segment Count" THEN 0
    ELSE IF f \in {"Object Width", "Twist Angle", "Vertical Wave Frequency"} THEN 2
    ELSE 3

(* The field as the key holds it: segment count truncated toward zero. *)
TruncatedOrRounded(f, v) == IF KeyDigits(f) = 0 THEN PyInt(v) ELSE PyRound(v, KeyDigits(f))

(* The field as the claim words it: segment count to the nearest integer,   *)
(* compared by value.                                                       *)
NearestOrRounded(f, v) ==
    IF KeyDigits(f) = 0 THEN PyIntNearest(v).n ELSE PyRound(v, KeyDigits(f)).n

(* C9, as amended: the key holds the segment count truncated toward zero    *)
(* (int()), width, twist angle and wave frequency rounded to 2 decimals,    *)
(* groove depth and wave depth to 3; it does not depend on the order of the *)
(* fields in the map; two maps get the same key exactly when all these      *)
(* fields agree in value and in numeric type (int or float).                *)
C9_KeyRounding ==
    kpc = "done" =>
        /\ kk1.ok /\ kk2.ok
        /\ (kk1 = kk2) <=>
              \A f \in FieldSet :
                  TruncatedOrRounded(f, Lookup(kp1, f))
                      = TruncatedOrRounded(f, Lookup(kp2, f))
        /\ (kp2 = ReverseSeq(kp1) => kk1 = kk2)

(* C9 witness: two maps that differ in segment count (5.0 and 5.7) and in   *)
(* width, given in opposite field orders, got the same key.                 *)
C9_Witness ==
    /\ kpc = "done"
    /\ kk1 = kk2
    /\ kp1[1][1] # kp2[1][1]
    /\ Lookup(kp1, "Segment Count") # Lookup(kp2, "Segment Count")
    /\ Lookup(kp1, "Object Width") # Lookup(kp2, "Object Width")

(* C9 as stated: segment count rounded to the nearest integer, and the same *)
(* key exactly when the rounded fields agree.                               *)
C9_AsStated ==
    kpc = "done" =>
        ((kk1 = kk2) <=>
            \A f \in FieldSet :
                NearestOrRounded(f, Lookup(kp1, f))
                    = NearestOrRounded(f, Lookup(kp2, f)))

(***************************************************************************)
(* Properties of the vase mesh (SpecVase).                                 *)
(***************************************************************************)
(* The position a row of vdata was written at. *)
PosOfRow(row) == vertices[row + 1]

(* The three edges of a triangle, as sets of two positions. *)
EdgesOf(t) ==
    { {PosOfRow(t[1]), PosOfRow(t[2])},
      {PosOfRow(t[2]), PosOfRow(t[3])},
      {PosOfRow(t[3]), PosOfRow(t[1])} }

TrianglesOn(e) == {j \in 1..Len(indices) : e \in EdgesOf(indices[j])}

(* C10: in the finished vase mesh, with vertices at the same position       *)
(* identified, every triangle edge is shared by exactly two triangles.      *)
C10_VaseClosedManifold ==
    mpc = "done" =>
        \A j \in 1..Len(indices) : \A e \in EdgesOf(indices[j]) :
            Cardinality(TrianglesOn(e)) = 2

(***************************************************************************)
(* Properties of the table mesh (SpecTable).                               *)
(***************************************************************************)
(* C11: in the finished table mesh, with vertices at the same position     *)
(* (angular step and axial level) identified, every edge of a triangle of  *)
(* the two cap fans and of the side wall is shared by exactly two          *)
(* triangles, for every angular count and every count of height segments.  *)
C11_TableClosedManifold ==
    (mpc = "done" /\ mret.type = "Table") =>
        \A j \in 1..Len(indices) : \A e \in EdgesOf(indices[j]) :
            Cardinality(TrianglesOn(e)) = 2

(* A finished table mesh with more than one band and more than three steps *)
C11_Witness ==
    /\ mpc = "done"
    /\ mret.type = "Table"
    /\ segments > 3
    /\ height_segments > 1
    /\ Len(indices) > 2 * segments

(***************************************************************************)
(* Properties of the vase's bounding box (SpecVaseBox).                    *)
(***************************************************************************)
XExtent == bbox.max_x - bbox.min_x
YExtent == bbox.max_y - bbox.min_y
ZExtent == bbox.max_z - bbox.min_z

(* C12: the diameter the vase builder returns is max minus min of the      *)
(* tracked horizontal extents, x and y, over all emitted vertices: it is   *)
(* the larger of the x extent and the y extent; without modulation it is   *)
(* twice the width (5.0 for width 2.5).                                    *)
C12_DiameterFromExtents ==
    mpc = "done" =>
        /\ mret.diameter.n = Higher(XExtent, YExtent)
        /\ (margs.twist_groove_depth.n = 0 /\ margs.vertical_wave_depth.n = 0)
                => mret.diameter.n = 2 * margs.object_width.n

(* C13: the height the vase builder returns, which _extract_result stores  *)
(* in the GeometryResult, is max minus min of the z coordinates of all     *)
(* emitted vertices, and is the builder's fixed axis extent.               *)
C13_HeightIsZExtent ==
    mpc = "done" =>
        /\ mret.height.n = ZExtent
        /\ mret.height = PyFloat(VaseHeight)
        /\ extract_result(mret, "Vace", <<"Vace", 1>>).height = mret.height

(* A finished vase with grooves and more than one band *)
C13_Witness ==
    /\ mpc = "done"
    /\ mret.type = "Vase"
    /\ margs.twist_groove_depth.n # 0
    /\ height_segments > 1
    /\ bbox.min_z < 0
    /\ bbox.max_z > 0

(* C14: the finished table mesh has 2N triangles in its two cap fans and   *)
(* 2 * N * H in its side wall, N the angular count and H the count of      *)
(* height segments; 2N + 2 + 4 * N * H is the number of its vertex rows.   *)
C14_TriangleCount ==
    (mpc = "done" /\ mret.type = "Table") =>
        /\ Len(indices) = 2 * segments + 2 * segments * height_segments
        /\ Len(vertices) = 2 * segments + 2 + 4 * segments * height_segments

(* A finished table mesh of several bands, its wall triangles counted *)
C14_Witness ==
    /\ mpc = "done"
    /\ mret.type = "Table"
    /\ height_segments > 1
    /\ Len(indices) - 2 * segments = 2 * segments * height_segments

(* C14 as stated: the mesh has exactly 2N + 2 + 4 * N * H triangles. *)
C14_AsStated ==
    (mpc = "done" /\ mret.type = "Table") =>
        Len(indices) = 2 * segments + 2 + 4 * segments * height_segments

(***************************************************************************)
(* Properties of the default parameter sets (Spec).                        *)
(***************************************************************************)
SliderConfigOf(kind) ==
    IF kind = "Vace" THEN vaseSliderConfig ELSE tableSliderConfig

(* the values of a parameter map in the order of its fields, in 1/Scale *)
ValuesOf(params) == [i \in 1..Len(params) |-> params[i][2].n]

(* every field of the map is the slider's field and lies in its range *)
InsideRanges(params, config) ==
    /\ Len(params) = Len(config)
    /\ \A i \in 1..Len(params) :
        /\ params[i][1] = config[i][1]
        /\ config[i][2] <= params[i][2].n
        /\ params[i][2].n <= config[i][3]

(* C15: get_supported_parameters gives, for the Solid kind, segment count  *)
(* 9, width 1.2, twist angle 10, groove depth 1.0, wave frequency 4.0 and  *)
(* wave depth 1.0, and for the Hollow kind 5, 2.5, 20, 1.0, 3.0 and 1.0;   *)
(* every default lies inside the range the slider configuration gives for  *)
(* its field; a change of the object kind makes them the current           *)
(* parameters.                                                             *)
C15_Defaults ==
    /\ ValuesOf(get_supported_parameters("Table"))
            = <<90000, 12000, 100000, 10000, 40000, 10000>>
    /\ ValuesOf(get_supported_parameters("Vace"))
            = <<50000, 25000, 200000, 10000, 30000, 10000>>
    /\ \A kind \in Kinds :
            InsideRanges(get_supported_parameters(kind), SliderConfigOf(kind))
    /\ (event.name = "_on_object_change" /\ app.current_object_type \in Kinds)
            => ValuesOf(app.current_params)
                    = ValuesOf(get_supported_parameters(app.current_object_type))

(* The Solid kind was selected and its defaults are the current parameters *)
C15_Witness ==
    /\ event.name = "_on_object_change"
    /\ app.current_object_type = "Table"
    /\ Lookup(app.current_params, "Segment Count") = PyIntVal(9)
    /\ Lookup(app.current_params, "Object Width") = PyFloat(12000)

(* C15 as stated: the Solid defaults, which a change to the Solid kind     *)
(* makes the current parameters, have segment count 5.                     *)
C15_AsStated ==
    (event.name = "_on_object_change" /\ app.current_object_type \in Kinds)
        => /\ ValuesOf(app.current_params)
                = IF app.current_object_type = "Table"
                  THEN <<50000, 12000, 100000, 10000, 40000, 10000>>
                  ELSE <<50000, 25000, 200000, 10000, 30000, 10000>>
           /\ InsideRanges(app.current_params,
                           SliderConfigOf(app.current_object_type))

(***************************************************************************)
(* Properties of the performance samples (Spec).                           *)
(***************************************************************************)
(* the last n elements of a sequence *)
LastN(seq, n) ==
    IF Len(seq) > n THEN SubSeq(seq, Len(seq) - n + 1, Len(seq)) ELSE seq

(* Every successful create_object attaches one new NodePath, a failed one  *)
(* none: the paths ever attached count the successful calls.               *)
SuccessfulCreations == Len(factory.paths)

SamplesBounded ==
    /\ Len(perf.creation_times) <= SamplesKept
    /\ perf.total_creations = SuccessfulCreations
    /\ Len(perf.creation_times) = Len(LastN([i \in 1..SuccessfulCreations |-> 0],
                                            SamplesKept))
    /\ LET stats == get_performance_stats(perf)
       IN IF perf.total_creations = 0 THEN stats.empty
          ELSE /\ ~stats.empty
               /\ stats.total_creations = SuccessfulCreations
               /\ stats.recent_creations = Len(perf.creation_times)
               /\ stats.min_creation_time * stats.avg_creation_time.count
                        <= stats.avg_creation_time.sum
               /\ stats.avg_creation_time.sum
                        <= stats.max_creation_time * stats.avg_creation_time.count

(* A handler that ran for now' - now ms and made k successful creations    *)
(* leaves the samples it found followed by k samples of that time, cut to  *)
(* the most recent ones.                                                   *)
SamplesRoll ==
    LET k == Len(factory'.paths) - Len(factory.paths)
    IN /\ perf'.total_creations = perf.total_creations + k
       /\ perf'.creation_times
            = LastN(perf.creation_times \o [i \in 1..k |-> now' - now],
                    SamplesKept)

(* C16: the service keeps at most the bound of latency samples, and they   *)
(* are the samples of the most recent successful creations in order;       *)
(* total_creations is the number of successful create_object calls ever    *)
(* made; get_performance_stats reports min <= avg <= max over the kept     *)
(* samples.                                                                *)
C16_RollingSamples == []SamplesBounded /\ [][SamplesRoll]_vars

(* More successful creations than samples kept, and the kept samples differ *)
C16_Witness ==
    /\ perf.total_creations > SamplesKept
    /\ Len(perf.creation_times) = SamplesKept
    /\ perf.creation_times[1] # perf.creation_times[SamplesKept]
    /\ ocall.raised = "none"

(***************************************************************************)
(* Properties of the cache statistics and of a hit (SpecCache).            *)
(***************************************************************************)
StatsAgree ==
    \A k \in Kinds :
        LET P == providers[k]
            stats == get_cache_stats(P)
        IN /\ P.misses = P.builds
           /\ stats.cache_hits = P.hits
           /\ stats.cache_misses = P.builds
           /\ stats.cache_size = Cardinality(CacheKeys(P.cache))
           /\ stats.cache_size = Len(P.cache)
           /\ IF P.hits + P.misses = 0 THEN stats.hit_rate = 0
              ELSE /\ stats.hit_rate.hits = P.hits
                   /\ stats.hit_rate.lookups = P.hits + P.misses
                   /\ stats.hit_rate.lookups > 0

(* A call that returns adds one lookup to its kind, as a hit when its key   *)
(* was cached and as a miss with one build otherwise; a call that raises    *)
(* and a step that is no call add none.                                     *)
StatsCount ==
    \A k \in Kinds :
        LET P == providers[k]
            Q == providers'[k]
            returned == IsCall /\ call'.kind = k /\ call'.raised = "none"
            hit == returned /\ call'.key \in CacheKeys(P.cache)
        IN /\ Q.hits + Q.misses = P.hits + P.misses + (IF returned THEN 1 ELSE 0)
           /\ Q.hits = P.hits + (IF hit THEN 1 ELSE 0)
           /\ Q.builds = P.builds + (IF returned /\ ~hit THEN 1 ELSE 0)

(* C17: for each kind's cache, hits + misses is the number of completed     *)
(* lookups, misses the number of mesh builds (one per miss, none on a hit), *)
(* cache_size the number of stored entries, and hit_rate is hits over       *)
(* hits + misses, 0 when there was no lookup.                               *)
C17_CacheStats == []StatsAgree /\ [][StatsCount]_vars

(* A cache that answered one hit and missed more often than it can hold *)
C17_Witness ==
    \E k \in Kinds :
        /\ providers[k].hits + providers[k].misses = GEOMETRY_CACHE_SIZE + 2
        /\ get_cache_stats(providers[k]).hit_rate.hits = 1
        /\ get_cache_stats(providers[k]).cache_size = GEOMETRY_CACHE_SIZE

(* C19: a create_geometry call that finds its key cached changes only the  *)
(* hit entry and the hit counter: the entry is stamped with the current    *)
(* time and its access count grows by one, the stored result is returned   *)
(* as it is, no entry is added, removed or re-stamped, and the miss count  *)
(* and the other kind's provider stay as they are.                         *)
C19_HitFrame ==
    [][\A k \in Kinds :
        LET P == providers[k]
            Q == providers'[k]
        IN (IsCall /\ call'.kind = k /\ call'.key.ok
                /\ call'.key \in CacheKeys(P.cache)) =>
            LET i == CacheIndex(P.cache, call'.key) IN
            /\ call'.raised = "none"
            /\ call'.ret = P.cache[i].geometry_result
            /\ Len(Q.cache) = Len(P.cache)
            /\ \A j \in 1..Len(P.cache) :
                IF j = i
                THEN Q.cache[j] = [P.cache[j] EXCEPT
                                      !.timestamp = now,
                                      !.access_count = P.cache[j].access_count + 1]
                ELSE Q.cache[j] = P.cache[j]
            /\ Q.hits = P.hits + 1
            /\ Q.misses = P.misses
            /\ Q.builds = P.builds
            /\ \A other \in Kinds \ {k} : providers'[other] = providers[other]
      ]_vars

(* The last call was a hit, later than the insertion of another entry that *)
(* is still cached with its older stamp.                                   *)
C19_Witness ==
    /\ call.op = "create_geometry"
    /\ call.raised = "none"
    /\ LET P == providers[call.kind]
       IN /\ call.ret.rid[2] < P.builds
          /\ Len(P.cache) = GEOMETRY_CACHE_SIZE
          /\ EntryOf(P.cache, call.key).timestamp = now
          /\ EntryOf(P.cache, call.key).geometry_result = call.ret
          /\ \E j \in 1..Len(P.cache) : P.cache[j].timestamp < now

(***************************************************************************)
(* Properties of the node pool (Spec).                                     *)
(***************************************************************************)
(* the node is under render: some NodePath of it has not been removed *)
InScene(node) ==
    \E p \in 1..Len(factory.paths) :
        factory.paths[p].node = node /\ factory.paths[p].attached

FreshlyApplied ==
    apply_display_data(upd.before,
                       calculate_display_data(upd.before, upd.result))

(* C20: an accepted update_display call shows the readout and gives the    *)
(* camera the framing that data computed afresh for its node and result    *)
(* would: a display-cache hit applies nothing else.                        *)
C20_HitEqualsFresh ==
    (upd.n > 0 /\ ~LastCallInWindow) =>
        /\ upd.after.readout = FreshlyApplied.readout
        /\ upd.after.camera = FreshlyApplied.camera

(***************************************************************************)
(***************************************************************************)
(* Properties of eviction (SpecCache).                                     *)
(***************************************************************************)
(* C24: no entry is read after its eviction without a rebuild.  The set    *)
(* evicted of a kind grows by exactly the keys that leave its cache; a     *)
(* call for a key that has been evicted and is not in the cache is a miss, *)
(* calls the mesh builder once, and stores and returns the result built by *)
(* that call; and a call returns a result without building only if its key *)
(* is in the cache, and then returns the result stored there.              *)
C24_NoReadAfterEviction ==
    [][\A k \in Kinds :
        LET P == providers[k]
            Q == providers'[k]
        IN /\ Q.evicted = P.evicted \cup (CacheKeys(P.cache) \ CacheKeys(Q.cache))
           /\ (IsCall /\ call'.kind = k /\ call'.key.ok
                    /\ call'.key \in P.evicted
                    /\ call'.key \notin CacheKeys(P.cache)) =>
                /\ call'.raised = "none"
                /\ Q.misses = P.misses + 1
                /\ Q.hits = P.hits
                /\ Q.builds = P.builds + 1
                /\ call'.ret = Build(k, call'.params, <<k, Q.builds>>)
                /\ call'.key \in CacheKeys(Q.cache)
                /\ EntryOf(Q.cache, call'.key)
                        = [key |-> call'.key, geometry_result |-> call'.ret,
                           timestamp |-> now, access_count |-> 0]
           /\ (IsCall /\ call'.kind = k /\ call'.raised = "none"
                    /\ Q.builds = P.builds) =>
                /\ call'.key \in CacheKeys(P.cache)
                /\ call'.ret = EntryOf(P.cache, call'.key).geometry_result
    ]_vars

(* C24 witness: the key of the last call had been evicted; the call built  *)
(* the mesh again, and the cache holds that result, not yet read, under    *)
(* the key.                                                                *)
C24_Witness ==
    /\ call.op = "create_geometry"
    /\ call.raised = "none"
    /\ call.key \in providers[call.kind].evicted
    /\ call.key \in CacheKeys(providers[call.kind].cache)
    /\ call.ret.rid = <<call.kind, providers[call.kind].builds>>
    /\ EntryOf(providers[call.kind].cache, call.key).geometry_result = call.ret
    /\ EntryOf(providers[call.kind].cache, call.key).access_count = 0

(* C28: what a provider returns for parameters p does not depend on the    *)
(* calls made before: the result of every successful create_geometry call  *)
(* has the mesh, height and diameter that the same call returns from a     *)
(* provider that has served no call.                                       *)
C28_HistoryIndependent ==
    (call.op = "create_geometry" /\ call.raised = "none") =>
        \E fresh \in {create_geometry(NewProvider, call.kind, call.params, now)} :
            /\ fresh.raised = "none"
            /\ call.ret.geometry = fresh.ret.geometry
            /\ call.ret.height = fresh.ret.height
            /\ call.ret.diameter = fresh.ret.diameter

(* C29: the GeometryResult a kind's provider returns carries that kind:    *)
(* its object_type is the object_type under which the provider is          *)
(* registered, one of the supported object types.                          *)
C29_ResultCarriesKind ==
    (call.op = "create_geometry" /\ call.raised = "none") =>
        /\ call.ret.object_type = call.kind
        /\ call.ret.object_type \in Kinds

(* C30: the caches of the two kinds are independent.  A create_geometry    *)
(* call for one kind, whether it hits, misses, evicts or fails, leaves the *)
(* other kind's provider as it was: its entries with their results,        *)
(* timestamps and access counts, and its hit and miss counters.            *)
C30_KindsIndependent ==
    [][\A k \in Kinds :
        (IsCall /\ call'.kind = k) =>
            \A other \in Kinds \ {k} :
                /\ providers'[other].cache = providers[other].cache
                /\ providers'[other].hits = providers[other].hits
                /\ providers'[other].misses = providers[other].misses
                /\ providers'[other] = providers[other]
    ]_vars

(* C30 witness: the last call, for one kind, missed on a full cache and    *)
(* evicted an entry, at a time later than the stamp of an entry the other  *)
(* kind still holds from its only lookup.                                  *)
C30_Witness ==
    /\ call.op = "create_geometry"
    /\ call.raised = "none"
    /\ providers[call.kind].evicted # {}
    /\ call.ret.rid = <<call.kind, GEOMETRY_CACHE_SIZE + 1>>
    /\ providers[call.kind].builds = GEOMETRY_CACHE_SIZE + 1
    /\ \E other \in Kinds \ {call.kind} :
        /\ Len(providers[other].cache) = 1
        /\ providers[other].misses = 1
        /\ providers[other].hits = 0
        /\ providers[other].cache[1].timestamp < now
        /\ providers[other].cache[1].access_count = 0

(***************************************************************************)
(* Properties of the parameter-change path (Spec).                         *)
(***************************************************************************)
(* A step in which _on_parameters_change ran and accepted the change: the  *)
(* call came at least PARAMETER_UPDATE_DEBOUNCE ms after the last accepted *)
(* one (app.py 651).                                                       *)
AcceptedChange ==
    /\ steps' = steps + 1
    /\ event'.name = "_on_parameters_change"
    /\ now - app.last_parameter_update_time >= PARAMETER_UPDATE_DEBOUNCE

(* A step in which _on_parameters_change ran and only recorded the change. *)
DeferredChange ==
    /\ steps' = steps + 1
    /\ event'.name = "_on_parameters_change"
    /\ now - app.last_parameter_update_time < PARAMETER_UPDATE_DEBOUNCE

(* C21: when _on_parameters_change accepts a change and rebuilds the       *)
(* primary object, the update_display call of that rebuild is applied, not *)
(* dropped by the display throttle, and the readout afterwards is that of  *)
(* the rebuilt geometry.                                                   *)
C21_AcceptedChangeShown ==
    [][(AcceptedChange /\ event'.raised = "none") =>
            /\ upd'.n = upd.n + 1
            /\ upd'.t - upd'.before.last_update_time
                    >= PARAMETER_UPDATE_DEBOUNCE
            /\ display' = upd'.after
            /\ display'.readout = MetricsOf(upd'.result)
    ]_vars

(* What the primary-object rebuild leaves alone when none is made. *)
NoRebuild ==
    /\ ocall'.n = ocall.n
    /\ factory' = factory
    /\ providers' = providers
    /\ perf' = perf
    /\ display' = display
    /\ app'.cylinder_np = app.cylinder_np

(* The value the merged changes give a field: the later map's if it has    *)
(* the field, else the earlier map's.                                      *)
LatestOf(earlier, later, name) ==
    IF HasKey(later, name) THEN Lookup(later, name) ELSE Lookup(earlier, name)

(* merged holds, for every field of either map, the latest value *)
MergedInto(merged, earlier, later) ==
    /\ \A name \in FieldSet :
        HasKey(merged, name) <=> (HasKey(earlier, name) \/ HasKey(later, name))
    /\ \A name \in FieldSet :
        HasKey(merged, name) => Lookup(merged, name) = LatestOf(earlier, later, name)

(* C22: a parameter change arriving inside the window is merged into the   *)
(* pending set and changes neither the current parameters nor the scene    *)
(* (no rebuild); an accepted change gives every field of the current       *)
(* parameters its latest value among the pending set and the change,       *)
(* empties the pending set, stamps the accept time and rebuilds the        *)
(* primary object exactly once.                                            *)
C22_Coalesces ==
    [][/\ DeferredChange =>
            /\ \E params \in SliderInputs :
                MergedInto(app'.pending_parameter_updates,
                           app.pending_parameter_updates, params)
            /\ app'.current_params = app.current_params
            /\ app'.last_parameter_update_time = app.last_parameter_update_time
            /\ event'.raised = "none"
            /\ NoRebuild
       /\ AcceptedChange =>
            /\ \E params \in SliderInputs :
                \E merged \in {DictUpdate(app.pending_parameter_updates, params)} :
                    /\ MergedInto(merged, app.pending_parameter_updates, params)
                    /\ MergedInto(app'.current_params, app.current_params, merged)
            /\ app'.pending_parameter_updates = <<>>
            /\ app'.last_parameter_update_time = now
            /\ event'.raised = "none"
            /\ ocall'.n = ocall.n + 1
            /\ ocall'.x = 0
            /\ ocall'.params = app'.current_params
            /\ app'.cylinder_np = ocall'.ret
    ]_vars

(* C22 witness: three callbacks after the start, a change was accepted at  *)
(* the start, a second one, 50 ms later, was deferred, and a third one,    *)
(* 100 ms after the first, was accepted and took 50 ms to rebuild: the     *)
(* pending set is empty again and the current parameters are the third     *)
(* change's.                                                               *)
C22_Witness ==
    /\ steps = 3
    /\ event = [name |-> "_on_parameters_change", raised |-> "none"]
    /\ app.last_parameter_update_time = T0 + PARAMETER_UPDATE_DEBOUNCE
    /\ now = app.last_parameter_update_time + PARAMETER_UPDATE_DEBOUNCE \div 2
    /\ app.pending_parameter_updates = <<>>
    /\ app.current_params = ParamsA
    /\ ocall.n = 3
    /\ Len(perf.creation_times) >= 2
    /\ perf.creation_times[Len(perf.creation_times) - 1]
            = PARAMETER_UPDATE_DEBOUNCE \div 2

(* C23: rebuilds of the primary object triggered by parameter changes are  *)
(* never less than PARAMETER_UPDATE_DEBOUNCE ms apart.  A step of          *)
(* _on_parameters_change that rebuilds starts at least the window after    *)
(* the stamp and sets the stamp to its own start; no other step moves the  *)
(* stamp, and time never runs backwards: the stamp is the start of the     *)
(* last such rebuild, whatever number of changes arrived since.            *)
C23_RebuildsRateLimited ==
    [][/\ (steps' = steps + 1 /\ event'.name = "_on_parameters_change"
                /\ ocall'.n # ocall.n) =>
            /\ now - app.last_parameter_update_time >= PARAMETER_UPDATE_DEBOUNCE
            /\ app'.last_parameter_update_time = now
       /\ app'.last_parameter_update_time # app.last_parameter_update_time =>
            /\ steps' = steps + 1
            /\ event'.name = "_on_parameters_change"
            /\ ocall'.n = ocall.n + 1
            /\ app'.last_parameter_update_time = now
       /\ now' >= now
       /\ app.last_parameter_update_time <= now
    ]_vars

(* C23 witness: a rebuild by a parameter change at T0 took half the window, *)
(* the change that arrived in the rest of the window was not built, and    *)
(* the change one window after that rebuild has just been.                 *)
C23_Witness ==
    /\ steps = 4
    /\ event.name = "_on_parameters_change"
    /\ app.pending_parameter_updates = <<>>
    /\ ocall.n = 3
    /\ ocall.before.perf.total_creations = 2
    /\ ocall.before.perf.creation_times[2] = PARAMETER_UPDATE_DEBOUNCE \div 2
    /\ app.last_parameter_update_time = T0 + PARAMETER_UPDATE_DEBOUNCE

(***************************************************************************)
(* Properties of the scene objects (SpecRebuild).                          *)
(***************************************************************************)
(* the NodePaths of F that are under render and whose node is the given one *)
AttachedOf(F, node) ==
    {p \in 1..Len(F.paths) : F.paths[p].attached /\ F.paths[p].node = node}

(* C25: no scene node is shared.  Between events, whether or not the last  *)
(* callback raised, a node is in the pool at most once, is the node of at  *)
(* most one attached scene object, and is not both pooled and attached;    *)
(* and when the last create_object call took a node from the pool, no      *)
(* scene object attached at that moment had that node, and the returned    *)
(* object is the only attached one that has it.                            *)
C25_NoSharedNode ==
    /\ \A i, j \in 1..Len(factory.pool) :
            factory.pool[i] = factory.pool[j] => i = j
    /\ \A node \in 1..Len(factory.nodes) :
            Cardinality(AttachedOf(factory, node)) <= 1
    /\ \A i \in 1..Len(factory.pool) :
            AttachedOf(factory, factory.pool[i]) = {}
    /\ (ocall.n > 0 /\ ocall.raised = "none"
            /\ ocall.before.factory.pool # <<>>) =>
        \E node \in {ocall.before.factory.pool[Len(ocall.before.factory.pool)]} :
            /\ AttachedOf(ocall.before.factory, node) = {}
            /\ AttachedOf(ocall.after.factory, node) = {ocall.ret}

(* C25 witness: a rebuild failed and left the node of the removed primary  *)
(* object in the pool; the favorites display that followed took the node   *)
(* from the pool for its last object, which is the only attached object    *)
(* on that node.                                                           *)
C25_Witness ==
    /\ event = [name |-> "_display_all_favorites", raised |-> "none"]
    /\ ocall.raised = "none"
    /\ ocall.before.factory.pool # <<>>
    /\ app.cylinder_np # 0
    /\ ~factory.paths[app.cylinder_np].attached
    /\ factory.paths[ocall.ret].node = factory.paths[app.cylinder_np].node
    /\ factory.paths[ocall.ret].attached
    /\ ocall.ret \in {app.favorite_objects[i] : i \in 1..Len(app.favorite_objects)}

(* A step of a callback that called build_object: an accepted parameter    *)
(* change, a selection in the dropdown, or _rebuild_with_params.           *)
CalledBuildObject ==
    /\ steps' = steps + 1
    /\ \/ AcceptedChange
       \/ event'.name = "_on_object_change"
       \/ event'.name = "_rebuild_with_params"

(* the attached scene objects that are not favorites *)
PrimaryObjects(F, A) ==
    {p \in 1..Len(F.paths) :
        /\ F.paths[p].attached
        /\ \A i \in 1..Len(A.favorite_objects) : A.favorite_objects[i] # p}

(* C26: after every call of build_object, whether its create_object        *)
(* returned or raised, exactly one primary object is attached to the scene *)
(* and cylinder_np is that object; after a failed rebuild it is the object *)
(* that was displayed before.                                              *)
C26_OnePrimaryAfterBuild ==
    [][CalledBuildObject =>
            /\ PrimaryObjects(factory', app') = {app'.cylinder_np}
            /\ event'.raised # "none" =>
                    /\ app'.cylinder_np = app.cylinder_np
                    /\ factory'.paths = factory.paths
    ]_vars

(* The GeometryResult the last create_object call got from its provider:   *)
(* the one stored under the key of the request's parameters.               *)
ResultOfCall ==
    EntryOf(ocall.after.providers[ocall.object_type].cache,
            create_cache_key(ocall.params)).geometry_result

(* C27: create_scene_object, as called by the last successful              *)
(* create_object, took the last node of the pool if the pool was not       *)
(* empty and allocated a node only if it was; the pool lost at most that   *)
(* node, no other node changed, and the returned NodePath is a new,        *)
(* attached one on that node, which holds exactly the mesh of the given    *)
(* GeometryResult, at the request's position and scale (1 in every         *)
(* request the application makes).                                         *)
C27_SceneObject ==
    (ocall.n > 0 /\ ocall.raised = "none") =>
        \E F \in {ocall.before.factory} : \E G \in {ocall.after.factory} :
        \E node \in {IF F.pool # <<>> THEN F.pool[Len(F.pool)]
                                      ELSE Len(F.nodes) + 1} :
            /\ IF F.pool # <<>>
               THEN /\ G.pool = SubSeq(F.pool, 1, Len(F.pool) - 1)
                    /\ Len(G.nodes) = Len(F.nodes)
               ELSE /\ G.pool = <<>>
                    /\ Len(G.nodes) = Len(F.nodes) + 1
            /\ \A other \in 1..Len(F.nodes) :
                    other # node => G.nodes[other] = F.nodes[other]
            /\ G.nodes[node].geoms = <<ResultOfCall.rid>>
            /\ G.paths = Append(F.paths, [node |-> node, x |-> ocall.x,
                                          scale |-> 1, attached |-> TRUE])
            /\ ocall.ret = Len(G.paths)

(* C27 witness: the last create_object call found in the pool a node that  *)
(* held another mesh and returned it holding the new mesh alone, in a      *)
(* scene where an earlier call had allocated a second node.                *)
C27_Witness ==
    /\ ocall.n > 0
    /\ ocall.raised = "none"
    /\ Len(ocall.before.factory.nodes) > 1
    /\ ocall.before.factory.pool # <<>>
    /\ \E node \in {ocall.after.factory.paths[ocall.ret].node} :
        /\ node = ocall.before.factory.pool[Len(ocall.before.factory.pool)]
        /\ ocall.before.factory.nodes[node].geoms # <<>>
        /\ ocall.before.factory.nodes[node].geoms
                # ocall.after.factory.nodes[node].geoms
        /\ Len(ocall.after.factory.nodes[node].geoms) = 1

(***************************************************************************)
(* Properties of the display throttle and the display cache (Spec).        *)
(***************************************************************************)
(* C31: the pending counter counts the update_display calls dropped since  *)
(* the last applied one.  It is 0 when the application starts (the call of *)
(* the first build was applied); a callback makes at most one              *)
(* update_display call, on the display manager as the previous callback    *)
(* left it; a dropped call adds one to the counter and leaves the          *)
(* last-applied time alone, an applied call sets the counter to 0 and the  *)
(* last-applied time to the time of the call, and a step without a call    *)
(* changes neither.                                                        *)
C31_PendingCounter ==
    /\ [](steps = 0 => (display.pending_updates = 0 /\ upd.n = 1
                            /\ display.last_update_time = upd.t))
    /\ [][/\ upd'.n \in {upd.n, upd.n + 1}
          /\ upd'.n = upd.n =>
                /\ display'.pending_updates = display.pending_updates
                /\ display'.last_update_time = display.last_update_time
          /\ upd'.n = upd.n + 1 =>
                /\ upd'.before = display
                /\ upd'.after.pending_updates = display'.pending_updates
                /\ upd'.after.last_update_time = display'.last_update_time
                /\ IF upd'.t - display.last_update_time < PARAMETER_UPDATE_DEBOUNCE
                   THEN /\ display'.pending_updates = display.pending_updates + 1
                        /\ display'.last_update_time = display.last_update_time
                   ELSE /\ display'.pending_updates = 0
                        /\ display'.last_update_time = upd'.t
       ]_vars

(* C31 witness: two calls in a row were dropped and the counter is 2. *)
C31_Witness ==
    /\ display.pending_updates = 2
    /\ upd.n = 3
    /\ upd.before.pending_updates = 1
    /\ display.last_update_time = T0

(* C32: an applied update_display (made once the display manager has its   *)
(* camera controller) selects the readout by the presence of a diameter.   *)
(* For a result with a diameter the readout is the diameter and height of  *)
(* the result and the camera is framed with its height and diameter; for a *)
(* result without one the readout is the measured bounds of the node (the  *)
(* bounds of the mesh it holds) and the camera is framed with the height   *)
(* alone.  Results of the vase provider have a diameter, results of the    *)
(* table provider have none.                                               *)
C32_ReadoutByDiameter ==
    (upd.n > 0 /\ ~LastCallInWindow /\ upd.before.camera_controller) =>
        /\ (upd.result.rid[1] = "Vace") <=> (upd.result.diameter # NoneNum)
        /\ IF upd.result.diameter # NoneNum
           THEN /\ upd.after.readout =
                        [type |-> "diameter_height",
                         diameter |-> upd.result.diameter,
                         height |-> upd.result.height, bounds |-> NoArgs]
                /\ upd.after.camera =
                        [view |-> "optimal", height |-> upd.result.height,
                         diameter |-> upd.result.diameter]
           ELSE /\ upd.after.readout =
                        [type |-> "bounds", diameter |-> NoneNum,
                         height |-> NoneNum, bounds |-> upd.result.geometry]
                /\ upd.after.camera =
                        [view |-> "optimal", height |-> upd.result.height,
                         diameter |-> NoneNum]

(* the display cache without its i-th entry is the front of the other *)
EvictedAt(before, after, i) ==
    /\ Len(after) = Len(before)
    /\ SubSeq(after, 1, Len(after) - 1) = RemoveAt(before, i)
    /\ \A j \in 1..Len(before) :
            before[i].data.timestamp <= before[j].data.timestamp

(* C33: the display cache never holds more than DISPLAY_CACHE_SIZE         *)
(* entries, under distinct keys.  Only an applied update_display whose key *)
(* is not cached changes it: it appends one entry, stamped with the time   *)
(* of the call, after deleting, if the cache was full, exactly one entry,  *)
(* one whose stamp is the oldest.  A hit, a dropped call and every other   *)
(* step leave the cache as it was.                                         *)
C33_DisplayCacheBound ==
    /\ [](/\ Len(display.display_cache) <= DISPLAY_CACHE_SIZE
          /\ Cardinality(DisplayKeys(display.display_cache))
                = Len(display.display_cache))
    /\ [][\E old \in {display.display_cache} : \E new \in {display'.display_cache} :
            IF /\ upd'.n = upd.n + 1
               /\ upd'.t - display.last_update_time >= PARAMETER_UPDATE_DEBOUNCE
               /\ create_display_cache_key(upd'.result) \notin DisplayKeys(old)
            THEN /\ new[Len(new)].key = create_display_cache_key(upd'.result)
                 /\ new[Len(new)].data.timestamp = upd'.t
                 /\ IF Len(old) < DISPLAY_CACHE_SIZE
                    THEN SubSeq(new, 1, Len(new) - 1) = old
                    ELSE \E i \in 1..Len(old) : EvictedAt(old, new, i)
            ELSE new = old
       ]_vars

(* C33 witness: the last update_display call was applied, found the cache  *)
(* full without its key, and the entry of the first build is gone.         *)
C33_Witness ==
    /\ upd.n > 0
    /\ ~LastCallInWindow
    /\ Len(upd.before.display_cache) = DISPLAY_CACHE_SIZE
    /\ create_display_cache_key(upd.result)
            \notin DisplayKeys(upd.before.display_cache)
    /\ Len(display.display_cache) = DISPLAY_CACHE_SIZE
    /\ upd.before.display_cache[1].data.timestamp = T0
    /\ \A i \in 1..Len(display.display_cache) :
            display.display_cache[i].data.timestamp > T0

(***************************************************************************)
(* Properties of the winding of the vase mesh (SpecVase).                  *)
(***************************************************************************)
(* The coordinates of a row, in hundredths of a unit of length. *)
Hundredths(row) ==
    LET c == Coord(PosOfRow(row))
    IN [x |-> c.x \div 100, y |-> c.y \div 100, z |-> c.z \div 100]

(* (b - a) x (c - a) for the rows a, b, c of a triangle: the direction a   *)
(* triangle is counter-clockwise when seen from.                           *)
NormalOf(t) ==
    LET a == Hundredths(t[1])
        b == Hundredths(t[2])
        c == Hundredths(t[3])
        u == [x |-> b.x - a.x, y |-> b.y - a.y, z |-> b.z - a.z]
        w == [x |-> c.x - a.x, y |-> c.y - a.y, z |-> c.z - a.z]
    IN [x |-> u.y * w.z - u.z * w.y,
        y |-> u.z * w.x - u.x * w.z,
        z |-> u.x * w.y - u.y * w.x]

(* The component of a triangle's normal along the direction from the axis  *)
(* to the triangle (three times its centroid).                             *)
RadialOf(t) ==
    LET a == Hundredths(t[1])
        b == Hundredths(t[2])
        c == Hundredths(t[3])
        n == NormalOf(t)
    IN n.x * (a.x + b.x + c.x) + n.y * (a.y + b.y + c.y)

RowsOf(ring) == {ring[k] : k \in 1..Len(ring)}

TopCapRows == RowsOf(rings.top_outer) \cup RowsOf(rings.top_inner)
BottomCapRows == RowsOf(rings.bottom_outer) \cup RowsOf(rings.bottom_inner)

(* The triangles of the two end faces are those over the four rings; the   *)
(* triangles of a shell are those of the bands with all rows on one shell. *)
OnRows(t, rows) == \A k \in 1..3 : t[k] \in rows
OnShell(t, shell) ==
    \A k \in 1..3 :
        /\ t[k] \notin TopCapRows \cup BottomCapRows
        /\ PosOfRow(t[k]).shell = shell

(* C34: every triangle emitted by vaseGeometry is counter-clockwise seen   *)
(* from outside the solid: a top-cap triangle seen from +z, a bottom-cap   *)
(* triangle seen from -z, an outer-shell triangle seen from outside, an    *)
(* inner-shell triangle seen from the axis.                                *)
C34_WindingOutward ==
    \A j \in 1..Len(indices) :
        LET t == indices[j]
        IN /\ OnRows(t, TopCapRows) => NormalOf(t).z > 0
           /\ OnRows(t, BottomCapRows) => NormalOf(t).z < 0
           /\ OnShell(t, "outer") => RadialOf(t) > 0
           /\ OnShell(t, "inner") => RadialOf(t) < 0

(* The shells alone are wound as stated. *)
ShellsWoundOutward ==
    \A j \in 1..Len(indices) :
        LET t == indices[j]
        IN /\ OnShell(t, "outer") => RadialOf(t) > 0
           /\ OnShell(t, "inner") => RadialOf(t) < 0

(* Both end faces are wound the other way round. *)
CapsWoundInward ==
    \A j \in 1..Len(indices) :
        LET t == indices[j]
        IN /\ OnRows(t, TopCapRows) => NormalOf(t).z < 0
           /\ OnRows(t, BottomCapRows) => NormalOf(t).z > 0

(***************************************************************************)
(* Properties of the two shells of the vase (SpecVaseBox).                 *)
(***************************************************************************)
(* wall_thickness = 0.5, the default no caller overrides *)
WallThickness == Scale \div 2

(* The radius the builder computed for the vertex of a row. *)
RadiusOfRow(row) ==
    get_surface_modulation(margs, PosOfRow(row).shell,
                           AngleOf(PosOfRow(row).step))

(* The radius of the other shell at the position of a row. *)
RadiusAcross(row) ==
    get_surface_modulation(margs,
        IF PosOfRow(row).shell = "inner" THEN "outer" ELSE "inner",
        AngleOf(PosOfRow(row).step))

Unmodulated ==
    /\ margs.object_width = PyFloat(25000)
    /\ margs.twist_groove_depth.n = 0
    /\ margs.vertical_wave_depth.n = 0

SizeIsMin ==
    \A k \in Kinds :
        Len(providers[k].cache) =
            Lower(providers[k].misses, GEOMETRY_CACHE_SIZE)

(* What a step does to the keys of each cache: a miss adds the key of the  *)
(* call and nothing else, and removes one key when the cache was full and  *)
(* none otherwise; any other step leaves the keys as they are.             *)
MissInsertsOne ==
    \A k \in Kinds :
        LET P == providers[k]
            Q == providers'[k]
            added == CacheKeys(Q.cache) \ CacheKeys(P.cache)
            gone == CacheKeys(P.cache) \ CacheKeys(Q.cache)
        IN /\ Q.misses \in {P.misses, P.misses + 1}
           /\ Q.misses = P.misses => (added = {} /\ gone = {})
           /\ Q.misses = P.misses + 1 =>
                /\ added = {call'.key}
                /\ call'.kind = k
                /\ Cardinality(gone) =
                        IF Len(P.cache) = GEOMETRY_CACHE_SIZE THEN 1 ELSE 0

(* C36: each kind's cache holds min(miss count, capacity) entries: every   *)
(* miss inserts exactly one new entry, and an entry is removed only by the *)
(* one eviction of an insertion into a full cache.                         *)
C36_SizeIsMinOfMisses == []SizeIsMin /\ [][MissInsertsOne]_vars

(* A cache after two more misses than it can hold: two evictions *)
C36_Witness ==
    \E k \in Kinds :
        /\ providers[k].misses = GEOMETRY_CACHE_SIZE + 2
        /\ Cardinality(providers[k].evicted) = 2
        /\ Len(providers[k].cache) = GEOMETRY_CACHE_SIZE

(***************************************************************************)
(* SpecPool: an ObjectFactory whose two methods are called in any order.   *)
(* recycle_node is given a GeomNode the factory made, whether or not the   *)
(* node is in the scene or in the pool already; create_scene_object is     *)
(* given a request at one of two positions and the result of a build.      *)
(***************************************************************************)
InitPool == KeyIdle /\ ProvidersConstructed /\ MeshIdle

PoolCall(op, kind) ==
    [op |-> op, kind |-> kind, params |-> <<>>, key |-> NoKey,
     ret |-> NoResult, raised |-> "none"]

RecycleNode ==
    /\ calls < MaxCalls
    /\ \E node \in 1..Len(factory.nodes) :
        factory' = recycle_node(factory, node)
    /\ call' = PoolCall("recycle_node", "none")
    /\ calls' = calls + 1
    /\ UNCHANGED <<providers, display, perf, upd, ocall, app, event, steps>>
    /\ UNCHANGED <<keyVars, clockVars, meshVars>>

CreateSceneObject ==
    /\ calls < MaxCalls
    /\ \E kind \in Kinds : \E x \in {0, 1} :
        \E o \in {create_scene_object(factory,
                        Request(ParamsA, kind, x, 1),
                        Build(kind, ParamsA, <<kind, calls + 1>>))} :
        /\ factory' = o.F
        /\ call' = PoolCall("create_scene_object", kind)
    /\ calls' = calls + 1
    /\ UNCHANGED <<providers, display, perf, upd, ocall, app, event, steps>>
    /\ UNCHANGED <<keyVars, clockVars, meshVars>>

NextPool == RecycleNode \/ CreateSceneObject

SpecPool == InitPool /\ [][NextPool]_vars

(***************************************************************************)
(* Properties of the node pool (SpecPool).                                 *)
(***************************************************************************)
(* What one call does to the pool. *)
PoolStep ==
    LET pool == factory.pool
        after == factory'.pool
    IN /\ call'.op = "recycle_node" =>
            IF Len(pool) >= PoolSize
            THEN factory' = factory
            ELSE /\ \E node \in 1..Len(factory.nodes) :
                        after = Append(pool, node)
                 /\ factory'.nodes = factory.nodes
                 /\ factory'.paths = factory.paths
       /\ call'.op = "create_scene_object" =>
            /\ Len(after) >= Len(pool) - 1
            /\ after = SubSeq(pool, 1, Len(after))
            /\ pool # <<>> => Len(after) = Len(pool) - 1

(* C37: after any sequence of recycle_node and create_scene_object calls   *)
(* the pool holds at most _pool_size nodes; recycle_node on a full pool    *)
(* leaves the pool as it is, and create_scene_object takes at most one     *)
(* node out of the pool.                                                   *)
C37_PoolBounded ==
    /\ [](Len(factory.pool) <= PoolSize)
    /\ [][PoolStep]_vars

(* One object was created and its node recycled once more often than the   *)
(* pool has room: the last recycle_node found the pool full.               *)
C37_Witness ==
    /\ call.op = "recycle_node"
    /\ Len(factory.paths) = 1
    /\ Len(factory.nodes) = 1
    /\ calls = PoolSize + 2
    /\ Len(factory.pool) = PoolSize

(***************************************************************************)
(* SpecMeshes: a build of either mesh builder.  The builder that runs is   *)
(* told by the lists it keeps: tableGeometry has the two centre rows.      *)
(***************************************************************************)
BuildingTable == "top_center" \in DOMAIN rings

InitMeshes == InitVase \/ InitTable

NextMeshes ==
    \/ ~BuildingTable /\ TopOuterRing
    \/ ~BuildingTable /\ TopInnerRing
    \/ ~BuildingTable /\ BottomOuterRing
    \/ ~BuildingTable /\ BottomInnerRing
    \/ ~BuildingTable /\ TopFaces
    \/ ~BuildingTable /\ BottomFaces
    \/ ~BuildingTable /\ BandVertices
    \/ ~BuildingTable /\ OuterQuads
    \/ ~BuildingTable /\ InnerQuads
    \/ ~BuildingTable /\ WallFaces
    \/ ~BuildingTable /\ VaseReturn
    \/ BuildingTable /\ TableCenters
    \/ BuildingTable /\ TableRing
    \/ BuildingTable /\ TableTopFan
    \/ BuildingTable /\ TableBottomFan
    \/ BuildingTable /\ TableWall
    \/ BuildingTable /\ TableReturn

SpecMeshes == InitMeshes /\ [][NextMeshes]_vars

(***************************************************************************)
(* Properties of the index lists of both builders (SpecMeshes).            *)
(***************************************************************************)
(* C38: every triangle emitted by tableGeometry or vaseGeometry, for every *)
(* angular count from 3 and every count of height bands from 1, names      *)
(* three different rows, each a row the build has written.                 *)
C38_IndicesValid ==
    \A j \in 1..Len(indices) :
        LET t == indices[j]
        IN /\ t[1] # t[2]
           /\ t[2] # t[3]
           /\ t[1] # t[3]
           /\ \A k \in 1..3 : t[k] \in 0..(Len(vertices) - 1)

(* A finished vase mesh of the largest tessellation: all rows and all      *)
(* triangles of the rings and the bands are there, and every row is named  *)
(* by a triangle.                                                          *)
C38_Witness ==
    /\ mpc = "done"
    /\ ~BuildingTable
    /\ segments = MaxN
    /\ height_segments = MaxH
    /\ Len(vertices) = segments * (4 + 4 * height_segments)
    /\ Len(indices) = segments * (4 + 8 * height_segments)
    /\ \A row \in 0..(Len(vertices) - 1) :
        \E j \in 1..Len(indices) : \E k \in 1..3 : indices[j][k] = row

====
